---- MODULE Spec2Model ----
(***************************************************************************)
(* A model of the wyre client binding: the System Resource Name (SRN)      *)
(* codec of common.rs and the client facade of lib.rs.                     *)
(*                                                                         *)
(* Text is modelled as a sequence of atoms.  An atom stands for a fixed    *)
(* run of characters ("paymentmethod", "ach", "x", ...) and ":" is an atom *)
(* of its own.  No atom is a prefix of another, so two atom sequences are  *)
(* equal exactly when the strings they stand for are equal, and no atom    *)
(* but ":" contains a colon, so splitting on ':' is splitting at the ":"   *)
(* atoms.                                                                  *)
(***************************************************************************)
EXTENDS Integers, Sequences, FiniteSets, TLC

VARIABLES
    srn,        \* codec: the SystemResourceName a caller built, if any
    text,       \* codec: the text serialized or received, if any
    decoded,    \* codec: the result of deserializing text, if any
    client,     \* the Client: environment, _api_key, api_secret
    pc,         \* where the operation in progress stands
    call,       \* the operation in progress and its arguments
    request,    \* the RequestBuilder handed to send()
    sent,       \* the requests dispatched for the operation in progress
    response,   \* the response received, if any
    result,     \* what the operation returned, if it has
    waiting,    \* the other operation in flight on the client, while it waits
    input,      \* codec and construction: the function applied and its argument
    output      \* codec and construction: what the function returned

srnVars == <<srn, text, decoded>>

clientVars == <<client, pc, call, request, sent, response, result, waiting>>

fnVars == <<input, output>>

vars ==
    <<srn, text, decoded, client, pc, call, request, sent, response, result, waiting,
      input, output>>

(***************************************************************************)
(* Bounds.                                                                 *)
(***************************************************************************)
\* Longest identifier, in atoms, a caller puts in an SRN.
MaxIdLen == 2

\* Longest tail, in atoms, that follows the first atom of a received text.
MaxTailLen == 6

(***************************************************************************)
(* Option<T> and Result<T, E>.                                             *)
(***************************************************************************)
None == [some |-> FALSE]

Some(x) == [some |-> TRUE, v |-> x]

Ok(x) == [ok |-> TRUE, value |-> x]

Err(e) == [ok |-> FALSE, error |-> e]

(***************************************************************************)
(* SystemResourceName.                                                     *)
(***************************************************************************)
SrnVariants ==
    { "Account", "User", "Wallet", "Transfer", "PaymentMethod",
      "AchPaymentMethod", "Email", "CellPhone", "Bitcoin", "Ethereum",
      "Avalanche", "Stellar", "Algorand", "Matic", "Flow", "Loopring" }

\* The atoms an identifier or a received tail is built from.
IdAtoms == {"x", "ach", ":"}

SeqsUpTo(S, n) == UNION { [1..k -> S] : k \in 0..n }

Identifiers == SeqsUpTo(IdAtoms, MaxIdLen)

SystemResourceName == [kind : SrnVariants, id : Identifiers]

Srn(kind, id) == [kind |-> kind, id |-> id]

\* AchPaymentMethod written without its suffix.
Srn_to_string_without_suffix(s) ==
    LET tag == [PaymentMethod |-> "paymentmethod", AchPaymentMethod |-> "paymentmethod",
                Email |-> "email", CellPhone |-> "cellphone", Bitcoin |-> "bitcoin",
                Ethereum |-> "ethereum", Avalanche |-> "avalanche", Stellar |-> "stellar",
                Algorand |-> "algorand", Matic |-> "matic", Flow |-> "flow",
                Loopring |-> "loopring", Account |-> "account", User |-> "user",
                Wallet |-> "wallet", Transfer |-> "transfer"]
    IN  <<tag[s.kind], ":">> \o s.id

\* impl ToString for SystemResourceName
Srn_to_string(s) ==
    CASE s.kind = "PaymentMethod"    -> <<"paymentmethod", ":">> \o s.id
      [] s.kind = "AchPaymentMethod" -> <<"paymentmethod", ":">> \o s.id \o <<":", "ach">>
      [] s.kind = "Email"            -> <<"email", ":">> \o s.id
      [] s.kind = "CellPhone"        -> <<"cellphone", ":">> \o s.id
      [] s.kind = "Bitcoin"          -> <<"bitcoin", ":">> \o s.id
      [] s.kind = "Ethereum"         -> <<"ethereum", ":">> \o s.id
      [] s.kind = "Avalanche"        -> <<"avalanche", ":">> \o s.id
      [] s.kind = "Stellar"          -> <<"stellar", ":">> \o s.id
      [] s.kind = "Algorand"         -> <<"algorand", ":">> \o s.id
      [] s.kind = "Matic"            -> <<"matic", ":">> \o s.id
      [] s.kind = "Flow"             -> <<"flow", ":">> \o s.id
      [] s.kind = "Loopring"         -> <<"loopring", ":">> \o s.id
      [] s.kind = "Account"          -> <<"account", ":">> \o s.id
      [] s.kind = "User"             -> <<"user", ":">> \o s.id
      [] s.kind = "Wallet"           -> <<"wallet", ":">> \o s.id
      [] s.kind = "Transfer"         -> <<"transfer", ":">> \o s.id

\* The position of the first ":" of v, or 0.
RECURSIVE FindColon(_, _)
FindColon(v, i) ==
    IF i > Len(v) THEN 0
    ELSE IF v[i] = ":" THEN i
    ELSE FindColon(v, i + 1)

\* str::splitn(2, ':'): the text before the first ":" and all that follows it.
str_splitn2(v) ==
    LET i == FindColon(v, 1)
    IN  IF i = 0 THEN <<v>>
        ELSE <<SubSeq(v, 1, i - 1), SubSeq(v, i + 1, Len(v))>>

\* str::split(':'): the segments between the ":" of v, empty ones included;
\* a text without ":" (the empty text too) is one segment.
RECURSIVE str_split(_)
str_split(v) ==
    LET i == FindColon(v, 1)
    IN  IF i = 0 THEN <<v>>
        ELSE <<SubSeq(v, 1, i - 1)>> \o str_split(SubSeq(v, i + 1, Len(v)))

\* Iterator::next, the n-th call on a fresh iterator over segs.
iter_next(segs, n) == IF n <= Len(segs) THEN Some(segs[n]) ELSE None

\* The list of expected forms handed to E::unknown_variant.
SrnExpected ==
    << <<"paymentmethod", ":", "{id}">>, <<"paymentmethod", ":", "{id}", ":", "ach">>,
       <<"email", ":", "{id}">>, <<"cellphone", ":", "{id}">>,
       <<"bitcoin", ":", "{id}">>, <<"ethereum", ":", "{id}">>,
       <<"avalanche", ":", "{id}">>, <<"stellar", ":", "{id}">>,
       <<"algorand", ":", "{id}">>, <<"matic", ":", "{id}">>,
       <<"flow", ":", "{id}">>, <<"loopring", ":", "{id}">>,
       <<"account", ":", "{id}">>, <<"user", ":", "{id}">>,
       <<"wallet", ":", "{id}">>, <<"transfer", ":", "{id}">> >>

\* A catch-all arm that falls back to a variant instead of failing.
unknown_variant_defaulted(v, expected) == Ok(Srn("Account", v))

\* serde::de::Error::unknown_variant(v, expected)
unknown_variant(v, expected) ==
    Err([type |-> "unknown_variant", variant |-> v, expected |-> expected])

\* serde::de::Error::custom(format!("srn is missing 'type': {}", v))
missing_type(v) ==
    Err([type |-> "custom", msg |-> "srn is missing 'type': ", arg |-> v])

\* SrnVisitor::visit_str
SrnVisitor_visit_str(v) ==
    LET iter  == str_split(v)
        kind  == iter_next(iter, 1)
        ident == iter_next(iter, 2)
        extra == iter_next(iter, 3)
        Is(t) == kind = Some(<<t>>) /\ ident.some /\ extra = None
    IN  IF Is("paymentmethod") THEN Ok(Srn("PaymentMethod", ident.v))
        ELSE IF kind = Some(<<"paymentmethod">>) /\ ident.some /\ extra = Some(<<"ach">>)
             THEN Ok(Srn("AchPaymentMethod", ident.v))
        ELSE IF Is("email") THEN Ok(Srn("Email", ident.v))
        ELSE IF Is("cellphone") THEN Ok(Srn("CellPhone", ident.v))
        ELSE IF Is("bitcoin") THEN Ok(Srn("Bitcoin", ident.v))
        ELSE IF Is("ethereum") THEN Ok(Srn("Ethereum", ident.v))
        ELSE IF Is("avalanche") THEN Ok(Srn("Avalanche", ident.v))
        ELSE IF Is("stellar") THEN Ok(Srn("Stellar", ident.v))
        ELSE IF Is("algorand") THEN Ok(Srn("Algorand", ident.v))
        ELSE IF Is("matic") THEN Ok(Srn("Matic", ident.v))
        ELSE IF Is("flow") THEN Ok(Srn("Flow", ident.v))
        ELSE IF Is("loopring") THEN Ok(Srn("Loopring", ident.v))
        ELSE IF Is("account") THEN Ok(Srn("Account", ident.v))
        ELSE IF Is("user") THEN Ok(Srn("User", ident.v))
        ELSE IF Is("wallet") THEN Ok(Srn("Wallet", ident.v))
        ELSE IF Is("transfer") THEN Ok(Srn("Transfer", ident.v))
        ELSE IF kind.some THEN unknown_variant(v, SrnExpected)
        ELSE missing_type(v)

(***************************************************************************)
(* The codec as a state machine: a caller constructs an SRN and serializes *)
(* it, or a text arrives from the server; the text at hand is then         *)
(* deserialized.                                                           *)
(***************************************************************************)
\* The 15 type tags the deserializer recognizes.
SrnTags ==
    { "paymentmethod", "email", "cellphone", "bitcoin", "ethereum",
      "avalanche", "stellar", "algorand", "matic", "flow", "loopring",
      "account", "user", "wallet", "transfer" }

\* Texts a server (or anyone) may send: nothing or one atom, a tag or not,
\* followed by any tail.
Heads == {<<>>} \cup { <<a>> : a \in SrnTags \cup {"bogus"} }

InputTexts == { h \o t : h \in Heads, t \in SeqsUpTo(IdAtoms, MaxTailLen) }

SrnInit ==
    /\ srn = None
    /\ text = None
    /\ decoded = None
    /\ client = None
    /\ pc = "idle"
    /\ call = None
    /\ request = None
    /\ sent = <<>>
    /\ response = None
    /\ result = None
    /\ waiting = None
    /\ input = None
    /\ output = None

Idle == srn = None /\ text = None /\ decoded = None

\* The caller builds a SystemResourceName value.
Construct ==
    /\ Idle
    /\ \E s \in SystemResourceName :
        /\ srn' = Some(s)
        /\ text' = None
        /\ decoded' = None
        /\ UNCHANGED <<clientVars, fnVars>>

\* impl Serialize for SystemResourceName
Serialize ==
    /\ srn.some
    /\ text = None
    /\ text' = Some(Srn_to_string(srn.v))
    /\ UNCHANGED <<srn, decoded>>
    /\ UNCHANGED <<clientVars, fnVars>>

\* A text arrives in a field typed SystemResourceName.
Receive ==
    /\ Idle
    /\ \E t \in InputTexts :
        /\ srn' = None
        /\ text' = Some(t)
        /\ decoded' = None
        /\ UNCHANGED <<clientVars, fnVars>>

\* impl Deserialize for SystemResourceName
Deserialize ==
    /\ text.some
    /\ decoded = None
    /\ decoded' = Some(SrnVisitor_visit_str(text.v))
    /\ UNCHANGED <<srn, text>>
    /\ UNCHANGED <<clientVars, fnVars>>

\* The decoded value goes out of scope.
Drop ==
    /\ decoded.some
    /\ srn' = None
    /\ text' = None
    /\ decoded' = None
    /\ UNCHANGED <<clientVars, fnVars>>

SrnNext == Construct \/ Serialize \/ Receive \/ Deserialize \/ Drop

SpecSrn == SrnInit /\ [][SrnNext]_vars

(***************************************************************************)
(* Properties of the codec, checked under SpecSrn.                         *)
(***************************************************************************)
ColonFree(s) == \A i \in 1..Len(s) : s[i] # ":"

\* The text before the first ":" of t (all of t when it has none).
TypeSegment(t) ==
    IF ColonFree(t) THEN t
    ELSE LET i == CHOOSE k \in 1..Len(t) : t[k] = ":" /\ ColonFree(SubSeq(t, 1, k - 1))
         IN  SubSeq(t, 1, i - 1)

Serialized == srn.some /\ text.some

Deserialized == text.some /\ decoded.some

Elems(q) == { q[i] : i \in 1..Len(q) }

\* C1: for every variant and every identifier, identifiers that contain ':'
\* included, deserializing the serialized text succeeds and gives back the
\* value that was serialized: Parse(Format(x)) = x.
C1_RoundTripAnyIdentifier ==
    (Serialized /\ decoded.some) => decoded.v = Ok(srn.v)

\* C2: deserializing a text without ':' (the empty text included) fails with
\* the missing-type error, not with the unknown-variant error.
C2_NoColonIsMissingType ==
    (Deserialized /\ ColonFree(text.v)) =>
        /\ ~decoded.v.ok
        /\ decoded.v.error.type = "custom"
        /\ decoded.v.error.msg = "srn is missing 'type': "

\* C3: for every identifier id without ':', "paymentmethod:id" deserializes
\* to PaymentMethod(id) and "paymentmethod:id:ach" to AchPaymentMethod(id);
\* PaymentMethod(id) serializes to "paymentmethod:id" and
\* AchPaymentMethod(id) to "paymentmethod:id:ach"; no text is the form of
\* both a PaymentMethod and an AchPaymentMethod.
C3_PaymentMethodForms ==
    /\ Deserialized =>
          \A id \in SeqsUpTo(IdAtoms \ {":"}, MaxTailLen) :
              /\ text.v = <<"paymentmethod", ":">> \o id
                    => decoded.v = Ok(Srn("PaymentMethod", id))
              /\ text.v = <<"paymentmethod", ":">> \o id \o <<":", "ach">>
                    => decoded.v = Ok(Srn("AchPaymentMethod", id))
    /\ (Serialized /\ ColonFree(srn.v.id)) =>
          /\ srn.v.kind = "PaymentMethod"
                => /\ text.v = <<"paymentmethod", ":">> \o srn.v.id
                   /\ \A id \in SeqsUpTo(IdAtoms \ {":"}, MaxIdLen) :
                          text.v # Srn_to_string(Srn("AchPaymentMethod", id))
          /\ srn.v.kind = "AchPaymentMethod"
                => /\ text.v = <<"paymentmethod", ":">> \o srn.v.id \o <<":", "ach">>
                   /\ \A id \in SeqsUpTo(IdAtoms \ {":"}, MaxIdLen) :
                          text.v # Srn_to_string(Srn("PaymentMethod", id))

\* A received "paymentmethod:x:ach" has been deserialized.
C3_Witness ==
    /\ Deserialized
    /\ srn = None
    /\ text.v = <<"paymentmethod", ":", "x", ":", "ach">>
    /\ decoded.v = Ok(Srn("AchPaymentMethod", <<"x">>))

C5_StellarWithMemo ==
    (Deserialized /\ text.v = <<"stellar", ":", "x", ":", "x">>) =>
        /\ decoded.v.ok
        /\ decoded.v.value.kind = "Stellar"

\* The text t is a recognized tag, ":" and an identifier without ":".
IsTagAndId(t) ==
    /\ Len(t) >= 2
    /\ t[1] \in SrnTags
    /\ t[2] = ":"
    /\ ColonFree(SubSeq(t, 3, Len(t)))

\* The text t is "paymentmethod:", an identifier without ":" and ":ach".
IsAchForm(t) ==
    /\ Len(t) >= 4
    /\ t[1] = "paymentmethod"
    /\ t[2] = ":"
    /\ ColonFree(SubSeq(t, 3, Len(t) - 2))
    /\ t[Len(t) - 1] = ":"
    /\ t[Len(t)] = "ach"

\* C23: deserializing succeeds exactly on the texts "T:id", T one of the 15
\* recognized tags, and "paymentmethod:id:ach", and yields the variant of the
\* tag with the identifier id; every other text fails, a text of four or
\* more segments such as "paymentmethod:id:ach:x" included.
C23_ParseAcceptsExactlyTheForms ==
    Deserialized =>
        /\ decoded.v.ok <=> (IsTagAndId(text.v) \/ IsAchForm(text.v))
        /\ IsTagAndId(text.v) =>
              /\ decoded.v.ok
              /\ decoded.v.value.id = SubSeq(text.v, 3, Len(text.v))
              /\ Srn_to_string(decoded.v.value) = text.v
        /\ IsAchForm(text.v) =>
              decoded.v = Ok(Srn("AchPaymentMethod", SubSeq(text.v, 3, Len(text.v) - 2)))

\* C28: for every variant and every identifier without ':' (the empty one
\* included), deserializing the serialized text gives back the value, and no
\* other such value has the same text.
C28_RoundTripColonFree ==
    (Serialized /\ ColonFree(srn.v.id)) =>
        /\ decoded.some => decoded.v = Ok(srn.v)
        /\ SrnVisitor_visit_str(text.v) = Ok(srn.v)
        /\ \A other \in SystemResourceName :
              (ColonFree(other.id) /\ Srn_to_string(other) = text.v) => other = srn.v

\* AchPaymentMethod("") has been serialized and deserialized.
C28_Witness ==
    /\ Serialized
    /\ decoded.some
    /\ srn.v = Srn("AchPaymentMethod", <<>>)
    /\ text.v = <<"paymentmethod", ":", ":", "ach">>
    /\ decoded.v = Ok(srn.v)

(***************************************************************************)
(* JSON values, as serde_json hands them to the derived deserializers.     *)
(* A string is a sequence of atoms; an object is a function from its keys. *)
(* A number is its integer part and the digits of its fraction.            *)
(***************************************************************************)
JNull == [t |-> "null"]

JBool(b) == [t |-> "bool", v |-> b]

JStr(s) == [t |-> "str", v |-> s]

JNum(n) == [t |-> "num", v |-> n, frac |-> <<>>]

JArr(q) == [t |-> "arr", v |-> q]

JObj(f) == [t |-> "obj", v |-> f]

\* f extended (or overridden) at key k.
With(f, k, x) == [y \in DOMAIN f \cup {k} |-> IF y = k THEN x ELSE f[y]]

\* f without key k.
Without(f, k) == [y \in DOMAIN f \ {k} |-> f[y]]

(***************************************************************************)
(* Type descriptors: one per Rust type that derives Deserialize.           *)
(***************************************************************************)
TString == [k |-> "string"]

TBool == [k |-> "bool"]

\* u64, usize
TUnsigned == [k |-> "unsigned"]

\* i64
TSigned == [k |-> "signed"]

\* f32, f64
TFloat == [k |-> "float"]

\* Amount = BigDecimal
TAmount == [k |-> "amount"]

TSrn == [k |-> "srn"]

TOption(ty) == [k |-> "option", of |-> ty]

TVec(ty) == [k |-> "vec", of |-> ty]

TMap(kt, vt) == [k |-> "map", key |-> kt, val |-> vt]

\* A struct: fields is a sequence of <<Rust field name, JSON key, type>>.
TStruct(name, fields) == [k |-> "struct", name |-> name, fields |-> fields]

\* An enum of unit variants: tokens maps each wire token to its variant;
\* other is the #[serde(other)] variant, if any.
TEnum(name, tokens, other) == [k |-> "enum", name |-> name, tokens |-> tokens, other |-> other]

\* ProfileFieldType: adjacently tagged (tag = "fieldType", content = "value").
TProfileFieldType == [k |-> "profile_field_type"]

\* UserFieldType: untagged.
TUserFieldType == [k |-> "user_field_type"]

\* A struct with one #[serde(flatten)] field of type flat.
TFlatStruct(name, fields, flatName, flat) ==
    [k |-> "flat_struct", name |-> name, fields |-> fields, flatName |-> flatName, flat |-> flat]

\* common.rs: Address
Address ==
    TStruct("Address",
        << <<"street1", "street1", TOption(TString)>>,
           <<"street2", "street2", TOption(TString)>>,
           <<"city", "city", TOption(TString)>>,
           <<"state", "state", TOption(TString)>>,
           <<"postal_code", "postalCode", TOption(TString)>>,
           <<"country", "country", TOption(TString)>> >>)

\* common.rs: Currency.  The wire token of a variant is its name, but for
\* the four renamed ones.
CurrencyNames ==
    { "USD", "EUR", "GBP", "AUD", "CAD", "NZD", "ARS", "BRL", "CHF", "CLP",
      "COP", "CZK", "DKK", "HKD", "ILS", "INR", "ISK", "JPY", "KRW", "MXN",
      "MYR", "NOK", "PHP", "PLN", "SEK", "SGD", "THB", "VND", "ZAR", "BTC",
      "ETH", "XLM", "AVAX", "DAI", "USDC", "USDT", "BUSD", "GUSD", "PAX",
      "USDS", "AAVE", "COMP", "LINK", "WBTC", "BAT", "CRV", "MKR", "SNX",
      "UMA", "UNI", "YFI", "GYEN", "ZUSD", "MATIC" }

CurrencyTokens ==
    [c \in CurrencyNames |-> c] @@ ("sUSDC" :> "SUSDC") @@ ("pDAI" :> "PDAI")
        @@ ("mUSDC" :> "MUSDC") @@ ("L-BTC" :> "LBTC")

Currency == TEnum("Currency", CurrencyTokens, Some("Other"))

\* account.rs: AccountStatus
AccountStatus ==
    TEnum("AccountStatus",
          [OPEN |-> "Open", PENDING |-> "Pending", APPROVED |-> "Approved",
           CLOSED |-> "Closed"], None)

\* account.rs: AccountType
AccountType ==
    TEnum("AccountType", [INDIVIDUAL |-> "Individual", BUSINESS |-> "Business"], None)

\* account.rs: ProfileFieldStatus
ProfileFieldStatus ==
    TEnum("ProfileFieldStatus",
          [OPEN |-> "Open", PENDING |-> "Pending", APPROVED |-> "Approved"], None)

\* account.rs: ProfileFieldId
ProfileFieldId ==
    TEnum("ProfileFieldId",
          [individualLegalName |-> "IndividualLegalName",
           individualCellphoneNumber |-> "IndividualCellphoneNumber",
           individualEmail |-> "IndividualEmail",
           individualResidenceAddress |-> "IndividualResidenceAddress",
           individualGovernmentId |-> "IndividualGovernmentId",
           individualDateOfBirth |-> "IndividualDateOfBirth",
           individualSsn |-> "IndividualSsn",
           individualSourceOfFunds |-> "IndividualSourceOfFunds",
           individualProofOfAddress |-> "IndividualProofOfAddress",
           individualAchAuthorizationForm |-> "IndividualAchAuthorizationForm"], None)

\* account.rs: ProfileField
ProfileField ==
    TFlatStruct("ProfileField",
        << <<"field_id", "fieldId", ProfileFieldId>>,
           <<"note", "note", TOption(TString)>>,
           <<"updated_t", "updatedT", TOption(TUnsigned)>>,
           <<"status", "status", ProfileFieldStatus>> >>,
        "value", TProfileFieldType)

\* account.rs: Account
Account ==
    TStruct("Account",
        << <<"id", "id", TString>>,
           <<"status", "status", AccountStatus>>,
           <<"kind", "type", AccountType>>,
           <<"country", "country", TString>>,
           <<"created_at", "createdAt", TUnsigned>>,
           <<"updated_at", "updatedAt", TUnsigned>>,
           <<"deposit_addresses", "depositAddresses", TMap(Currency, TString)>>,
           <<"total_balances", "totalBalances", TMap(Currency, TAmount)>>,
           <<"available_balances", "availableBalances", TMap(Currency, TAmount)>>,
           <<"profile_fields", "profileFields", TVec(ProfileField)>> >>)

\* payment_method.rs: PaymentMethodStatus
PaymentMethodStatus ==
    TEnum("PaymentMethodStatus",
          [PENDING |-> "Pending", AWAITING_FOLLOWUP |-> "AwaitingFollowup",
           ACTIVE |-> "Active", REJECTED |-> "Rejected"], None)

\* payment_method.rs: PaymentMethod
PaymentMethod ==
    TStruct("PaymentMethod",
        << <<"id", "id", TString>>,
           <<"owner", "owner", TSrn>>,
           <<"created_at", "createdAt", TUnsigned>>,
           <<"name", "name", TString>>,
           <<"default_currency", "defaultCurrency", Currency>>,
           <<"status", "status", PaymentMethodStatus>>,
           <<"link_type", "linkType", TString>>,
           <<"beneficiary_type", "beneficiaryType", TString>>,
           <<"supports_deposits", "supportsDeposits", TOption(TBool)>>,
           <<"last4_digits", "last4Digits", TString>>,
           <<"brand", "brand", TOption(TString)>>,
           <<"country_code", "countryCode", TString>>,
           <<"disabled", "disabled", TBool>>,
           <<"supports_payment", "supportsPayment", TBool>>,
           <<"chargeable_currencies", "chargeableCurrencies", TVec(Currency)>>,
           <<"depositable_currencies", "depositableCurrencies", TVec(Currency)>>,
           <<"srn", "srn", TSrn>> >>)

\* payment_method.rs: PaymentMethodList
PaymentMethodList ==
    TStruct("PaymentMethodList",
        << <<"data", "data", TVec(PaymentMethod)>>,
           <<"records_total", "recordsTotal", TUnsigned>>,
           <<"position", "position", TUnsigned>>,
           <<"records_filtered", "recordsFiltered", TUnsigned>> >>)

\* account.rs: MasterAccountProfile
MasterAccountProfile ==
    TStruct("MasterAccountProfile",
        << <<"first_name", "firstName", TString>>,
           <<"last_name", "lastName", TString>>,
           <<"language", "language", TString>>,
           <<"address", "address", Address>>,
           <<"business_account", "businessAccount", TBool>>,
           <<"notify_cellphone", "notifyCellphone", TBool>>,
           <<"onboarding_dashboard_completed", "onboardingDashboardCompleted", TBool>>,
           <<"display_currency", "displayCurrency", TString>>,
           <<"kind", "type", TString>>,
           <<"vertical", "vertical", TString>>,
           <<"country", "country", TString>> >>)

\* account.rs: MasterAccount
MasterAccount ==
    TStruct("MasterAccount",
        << <<"id", "id", TString>>,
           <<"srn", "srn", TString>>,
           <<"created_at", "createdAt", TUnsigned>>,
           <<"updated_at", "updatedAt", TOption(TUnsigned)>>,
           <<"deleted_at", "deletedAt", TOption(TUnsigned)>>,
           <<"disabled_at", "disabledAt", TOption(TUnsigned)>>,
           <<"locked_at", "lockedAt", TOption(TUnsigned)>>,
           <<"under_review_at", "underReviewAt", TOption(TUnsigned)>>,
           <<"in_review_at", "inReviewAt", TOption(TUnsigned)>>,
           <<"compliance_approved_at", "complianceApprovedAt", TOption(TUnsigned)>>,
           <<"status", "status", AccountStatus>>,
           <<"profile", "profile", MasterAccountProfile>>,
           <<"payment_methods", "paymentMethods", TVec(PaymentMethod)>>,
           <<"deposit_addresses", "depositAddresses", TMap(Currency, TString)>>,
           <<"pusher_channel", "pusherChannel", TString>>,
           <<"email", "email", TString>>,
           <<"verified", "verified", TBool>>,
           <<"kind", "type", TString>> >>)

\* TransferStatus with every token read as the default status.
TransferStatus_defaulted ==
    TEnum("TransferStatus",
          [PREVIEW |-> "Pending", UNCONFIRMED |-> "Pending", PENDING |-> "Pending",
           COMPLETED |-> "Pending", EXPIRED |-> "Pending", FAILED |-> "Pending",
           REVERSED |-> "Pending"], None)

\* transfer.rs: TransferStatus
TransferStatus ==
    TEnum("TransferStatus",
          [PREVIEW |-> "Preview", UNCONFIRMED |-> "Unconfirmed", PENDING |-> "Pending",
           COMPLETED |-> "Completed", EXPIRED |-> "Expired", FAILED |-> "Failed",
           REVERSED |-> "Reversed"], None)

\* transfer.rs: Transfer
Transfer ==
    TStruct("Transfer",
        << <<"id", "id", TString>>,
           <<"owner", "owner", TString>>,
           <<"source", "source", TString>>,
           <<"source_amount", "sourceAmount", TAmount>>,
           <<"source_currency", "sourceCurrency", Currency>>,
           <<"dest", "dest", TString>>,
           <<"dest_amount", "destAmount", TAmount>>,
           <<"dest_currency", "destCurrency", Currency>>,
           <<"status", "status", TransferStatus>>,
           <<"pending_sub_status", "pendingSubStatus", TOption(TString)>>,
           <<"completed_at", "completedAt", TOption(TUnsigned)>>,
           <<"updated_at", "updatedAt", TOption(TUnsigned)>>,
           <<"cancelled_at", "cancelledAt", TOption(TUnsigned)>>,
           <<"expires_at", "expiresAt", TOption(TUnsigned)>>,
           <<"exchange_rate", "exchangeRate", TOption(TFloat)>>,
           <<"fees", "fees", TMap(Currency, TAmount)>>,
           <<"total_fees", "totalFees", TFloat>>,
           <<"message", "message", TOption(TString)>>,
           <<"custom_id", "customId", TOption(TString)>> >>)

\* user.rs: UserStatus
UserStatus ==
    TEnum("UserStatus",
          [CLOSED |-> "Closed", OPEN |-> "Open", PENDING |-> "Pending",
           APPROVED |-> "Approved"], None)

\* user.rs: UserFieldStatus
UserFieldStatus ==
    TEnum("UserFieldStatus", [OPEN |-> "Open", SUBMITTED |-> "Submitted"], None)

\* user.rs: UserFieldId
UserFieldId ==
    TEnum("UserFieldId",
          [firstName |-> "FirstName", lastName |-> "LastName", email |-> "Email",
           residenceAddress |-> "ResidenceAddress", dateOfBirth |-> "DateOfBirth"], None)

\* user.rs: UserField
UserField ==
    TStruct("UserField",
        << <<"value", "value", TOption(TUserFieldType)>>,
           <<"status", "status", UserFieldStatus>>,
           <<"error", "error", TOption(TString)>> >>)

\* user.rs: UserBalances
UserBalances ==
    TStruct("UserBalances",
        << <<"btc", "BTC", TOption(TSigned)>>,
           <<"eth", "ETH", TOption(TFloat)>> >>)

\* user.rs: DepositAddresses
DepositAddresses ==
    TStruct("DepositAddresses",
        << <<"eth", "ETH", TOption(TString)>>,
           <<"btc", "BTC", TOption(TString)>> >>)

\* user.rs: User
User ==
    TStruct("User",
        << <<"id", "id", TString>>,
           <<"status", "status", UserStatus>>,
           <<"created_at", "createdAt", TSigned>>,
           <<"deposit_addresses", "depositAddresses", DepositAddresses>>,
           <<"total_balances", "totalBalances", UserBalances>>,
           <<"available_balances", "availableBalances", UserBalances>>,
           <<"fields", "fields", TMap(UserFieldId, UserField)>> >>)

\* error.rs: ApiError
ApiError ==
    TStruct("ApiError",
        << <<"exception_id", "exceptionId", TString>>,
           <<"kind", "type", TString>>,
           <<"error_code", "errorCode", TOption(TString)>>,
           <<"message", "message", TString>>,
           <<"language", "language", TString>>,
           <<"transient", "transient", TBool>> >>)

(***************************************************************************)
(* Deserialization (serde, serde_json): Decode(ty, j) is the result of     *)
(* deserializing the JSON value j as the type ty describes.                *)
(***************************************************************************)
DecodeError(what) == Err([type |-> what])

\* The first failure among the results rs (a sequence), which has one.
FirstErr(rs) ==
    rs[CHOOSE i \in 1..Len(rs) : ~rs[i].ok /\ \A j \in 1..(i - 1) : rs[j].ok]

AllOk(rs) == \A i \in 1..Len(rs) : rs[i].ok

\* The largest integer an f32 holds exactly next to its neighbours: 2^24.
F32Exact == 16777216

\* A JSON number as f32 / f64: an integer of small magnitude is kept; any
\* other number becomes the nearest float, which is written here as a value
\* apart from every decimal.
float_of(j) ==
    IF j.frac = <<>> /\ j.v <= F32Exact /\ -j.v <= F32Exact
    THEN [int |-> j.v, frac |-> <<>>]
    ELSE [nearest |-> <<j.v, j.frac>>]

Digits == {"0", "1", "2", "3", "4", "5", "6", "7", "8", "9"}

\* BigDecimal::from_str on a text of digit atoms with at most one ".": the
\* digits before and after the point, kept as they are; Err otherwise.
BigDecimal_from_str(s) ==
    LET neg  == Len(s) > 0 /\ s[1] = "-"
        body == IF neg THEN Tail(s) ELSE s
        dots == { i \in 1..Len(body) : body[i] = "." }
        p    == IF dots = {} THEN Len(body) + 1 ELSE CHOOSE i \in dots : TRUE
        int  == SubSeq(body, 1, p - 1)
        frac == SubSeq(body, p + 1, Len(body))
    IN  IF /\ Cardinality(dots) <= 1
           /\ Len(int) + Len(frac) > 0
           /\ \A i \in 1..Len(body) : body[i] \in Digits \cup {"."}
        THEN Ok([neg |-> neg, int |-> int, frac |-> frac])
        ELSE DecodeError("invalid_decimal")

\* BigDecimalVisitor: a string is parsed; an integer is taken as it is; any
\* other number arrives as an f64 and is converted from that.
DecodeAmount(j) ==
    IF j.t = "str" THEN BigDecimal_from_str(j.v)
    ELSE IF j.t = "num" /\ j.frac = <<>> THEN Ok([integer |-> j.v])
    ELSE IF j.t = "num" THEN Ok([from_f64 |-> float_of(j)])
    ELSE DecodeError("invalid_type")

\* The variants of ProfileFieldType by wire token, and the type each wraps.
ProfileFieldTypeTokens ==
    [STRING |-> "String", CELLPHONE |-> "Cellphone", EMAIL |-> "Email",
     ADDRESS |-> "Address", DATE |-> "Date", DOCUMENT |-> "Document",
     PAYMENT_METHOD |-> "PaymentMethod"]

\* Address wrapping an Address that must be there.
ProfileFieldTypeContent_required(variant) ==
    CASE variant = "Address"  -> Address
      [] variant = "Document" -> TVec(TString)
      [] OTHER                -> TOption(TString)

ProfileFieldTypeContent(variant) ==
    CASE variant = "Address"  -> TOption(Address)
      [] variant = "Document" -> TVec(TString)
      [] OTHER                -> TOption(TString)

RECURSIVE Decode(_, _)
\* A derived struct visitor: visit_map on an object, visit_seq on an array.
DecodeStruct(fields, j) ==
    IF j.t = "obj"
    THEN LET rs == [i \in 1..Len(fields) |->
                      IF fields[i][2] \in DOMAIN j.v THEN Decode(fields[i][3], j.v[fields[i][2]])
                      ELSE IF fields[i][3].k = "option" THEN Ok(None)
                      ELSE Err([type |-> "missing_field", field |-> fields[i][2]])]
         IN  IF AllOk(rs)
             THEN Ok([n \in { fields[i][1] : i \in 1..Len(fields) } |->
                        rs[CHOOSE i \in 1..Len(fields) : fields[i][1] = n].value])
             ELSE FirstErr(rs)
    ELSE IF j.t = "arr"
    THEN LET rs == [i \in 1..Len(fields) |->
                      IF i <= Len(j.v) THEN Decode(fields[i][3], j.v[i])
                      ELSE DecodeError("invalid_length")]
         IN  IF ~AllOk(rs) THEN FirstErr(rs)
             ELSE IF Len(j.v) > Len(fields) THEN DecodeError("invalid_length")
             ELSE Ok([n \in { fields[i][1] : i \in 1..Len(fields) } |->
                        rs[CHOOSE i \in 1..Len(fields) : fields[i][1] = n].value])
    ELSE DecodeError("invalid_type")

\* A token that names no variant refused, whatever the enum.
DecodeEnum_strict(ty, j) ==
    IF j.t = "str" /\ Len(j.v) = 1 /\ j.v[1] \in DOMAIN ty.tokens
    THEN Ok(ty.tokens[j.v[1]])
    ELSE DecodeError("unknown_variant")

\* An enum of unit variants: a string token, or an object {token: null}.
DecodeEnum(ty, j) ==
    LET token == IF j.t = "str" /\ Len(j.v) = 1 THEN Some(j.v[1])
                 ELSE IF j.t = "obj" /\ Cardinality(DOMAIN j.v) = 1
                         /\ \A key \in DOMAIN j.v : j.v[key] = JNull
                      THEN Some(CHOOSE key \in DOMAIN j.v : TRUE)
                 ELSE None
    IN  IF j.t \notin {"str", "obj"} THEN DecodeError("invalid_type")
        ELSE IF token.some /\ token.v \in DOMAIN ty.tokens THEN Ok(ty.tokens[token.v])
        ELSE IF j.t = "str" /\ ty.other.some THEN Ok(ty.other.v)
        ELSE DecodeError("unknown_variant")

\* A tag that names no variant taken as String.
DecodeProfileFieldType_defaulted(j) ==
    IF j.t # "obj" THEN DecodeError("invalid_type")
    ELSE LET known   == /\ "fieldType" \in DOMAIN j.v
                        /\ j.v["fieldType"].t = "str"
                        /\ Len(j.v["fieldType"].v) = 1
                        /\ j.v["fieldType"].v[1] \in DOMAIN ProfileFieldTypeTokens
             variant == IF known THEN ProfileFieldTypeTokens[j.v["fieldType"].v[1]] ELSE "String"
             cty     == ProfileFieldTypeContent(variant)
             content == IF known /\ "value" \in DOMAIN j.v THEN Decode(cty, j.v["value"])
                        ELSE Ok(None)
         IN  IF content.ok THEN Ok([variant |-> variant, value |-> content.value])
             ELSE content

\* ProfileFieldType from the entries a flattened struct hands on: the tag
\* "fieldType" names the variant, "value" holds its content; a missing
\* content stands for None where the variant wraps an Option.
DecodeProfileFieldType(j) ==
    IF j.t # "obj" THEN DecodeError("invalid_type")
    ELSE IF "fieldType" \notin DOMAIN j.v
    THEN Err([type |-> "missing_field", field |-> "fieldType"])
    ELSE LET tag == j.v["fieldType"]
         IN  IF tag.t # "str" THEN DecodeError("invalid_type")
             ELSE IF Len(tag.v) # 1 \/ tag.v[1] \notin DOMAIN ProfileFieldTypeTokens
             THEN DecodeError("unknown_variant")
             ELSE LET variant == ProfileFieldTypeTokens[tag.v[1]]
                      cty     == ProfileFieldTypeContent(variant)
                      content == IF "value" \in DOMAIN j.v THEN Decode(cty, j.v["value"])
                                 ELSE IF cty.k = "option" THEN Ok(None)
                                 ELSE Err([type |-> "missing_field", field |-> "value"])
                  IN  IF content.ok THEN Ok([variant |-> variant, value |-> content.value])
                      ELSE content

\* UserFieldType with the Address shape tried before the String shape.
DecodeUserFieldType_address_first(j) ==
    LET asString  == Decode(TOption(TString), j)
        asAddress == Decode(TOption(Address), j)
    IN  IF asAddress.ok THEN Ok([variant |-> "Address", value |-> asAddress.value])
        ELSE IF asString.ok THEN Ok([variant |-> "String", value |-> asString.value])
        ELSE DecodeError("no_variant_matched")

\* UserFieldType with the String shape alone.
DecodeUserFieldType_string_only(j) ==
    LET asString == Decode(TOption(TString), j)
    IN  IF asString.ok THEN Ok([variant |-> "String", value |-> asString.value])
        ELSE DecodeError("no_variant_matched")

\* UserFieldType, untagged: the variants are tried in the order they are
\* declared, String(Option<String>) then Address(Option<Address>).
DecodeUserFieldType(j) ==
    LET asString  == Decode(TOption(TString), j)
        asAddress == Decode(TOption(Address), j)
    IN  IF asString.ok THEN Ok([variant |-> "String", value |-> asString.value])
        ELSE IF asAddress.ok THEN Ok([variant |-> "Address", value |-> asAddress.value])
        ELSE DecodeError("no_variant_matched")

\* A struct with a flattened field: the named fields take their keys, the
\* flattened type is deserialized from the entries that are left.
DecodeFlatStruct(ty, j) ==
    IF j.t # "obj" THEN DecodeError("invalid_type")
    ELSE LET named == DecodeStruct(ty.fields, j)
             used  == { ty.fields[i][2] : i \in 1..Len(ty.fields) }
             rest  == JObj([key \in DOMAIN j.v \ used |-> j.v[key]])
             flat  == Decode(ty.flat, rest)
         IN  IF ~named.ok THEN named
             ELSE IF ~flat.ok THEN flat
             ELSE Ok(With(named.value, ty.flatName, flat.value))

\* HashMap<K, V> without the entries whose key is the catch-all variant.
DecodeMap_named_only(ty, j) ==
    IF j.t # "obj" THEN DecodeError("invalid_type")
    ELSE LET keys == { key \in DOMAIN j.v :
                         (ty.key.k = "enum" /\ ty.key.other.some) =>
                             key \in DOMAIN ty.key.tokens }
             kr   == [key \in keys |-> Decode(ty.key, JStr(<<key>>))]
             vr   == [key \in keys |-> Decode(ty.val, j.v[key])]
             bad  == { key \in keys : ~kr[key].ok \/ ~vr[key].ok }
         IN  IF bad # {}
             THEN LET key == CHOOSE b \in bad : TRUE
                  IN  IF ~kr[key].ok THEN kr[key] ELSE vr[key]
             ELSE Ok([dk \in { kr[key].value : key \in keys } |->
                        vr[CHOOSE key \in keys : kr[key].value = dk].value])

\* HashMap<K, V>: every key is deserialized as K and every value as V; two
\* keys that deserialize alike leave one entry (the object carries no order,
\* so which of the two values stays is left open).
DecodeMap(ty, j) ==
    IF j.t # "obj" THEN DecodeError("invalid_type")
    ELSE LET keys == DOMAIN j.v
             kr   == [key \in keys |-> Decode(ty.key, JStr(<<key>>))]
             vr   == [key \in keys |-> Decode(ty.val, j.v[key])]
             bad  == { key \in keys : ~kr[key].ok \/ ~vr[key].ok }
         IN  IF bad # {}
             THEN LET key == CHOOSE b \in bad : TRUE
                  IN  IF ~kr[key].ok THEN kr[key] ELSE vr[key]
             ELSE Ok([dk \in { kr[key].value : key \in keys } |->
                        vr[CHOOSE key \in keys : kr[key].value = dk].value])

Decode(ty, j) ==
    CASE ty.k = "string" ->
            IF j.t = "str" THEN Ok(j.v) ELSE DecodeError("invalid_type")
      [] ty.k = "bool" ->
            IF j.t = "bool" THEN Ok(j.v) ELSE DecodeError("invalid_type")
      [] ty.k = "unsigned" ->
            IF j.t = "num" /\ j.frac = <<>> /\ j.v >= 0 THEN Ok(j.v)
            ELSE DecodeError("invalid_type")
      [] ty.k = "signed" ->
            IF j.t = "num" /\ j.frac = <<>> THEN Ok(j.v) ELSE DecodeError("invalid_type")
      [] ty.k = "float" ->
            IF j.t = "num" THEN Ok(float_of(j)) ELSE DecodeError("invalid_type")
      [] ty.k = "amount" -> DecodeAmount(j)
      [] ty.k = "srn" ->
            IF j.t = "str" THEN SrnVisitor_visit_str(j.v) ELSE DecodeError("invalid_type")
      [] ty.k = "option" ->
            IF j = JNull THEN Ok(None)
            ELSE LET r == Decode(ty.of, j) IN IF r.ok THEN Ok(Some(r.value)) ELSE r
      [] ty.k = "vec" ->
            IF j.t # "arr" THEN DecodeError("invalid_type")
            ELSE LET rs == [i \in 1..Len(j.v) |-> Decode(ty.of, j.v[i])]
                 IN  IF AllOk(rs) THEN Ok([i \in 1..Len(j.v) |-> rs[i].value])
                     ELSE FirstErr(rs)
      [] ty.k = "map" -> DecodeMap(ty, j)
      [] ty.k = "struct" -> DecodeStruct(ty.fields, j)
      [] ty.k = "flat_struct" -> DecodeFlatStruct(ty, j)
      [] ty.k = "enum" -> DecodeEnum(ty, j)
      [] ty.k = "profile_field_type" -> DecodeProfileFieldType(j)
      [] ty.k = "user_field_type" -> DecodeUserFieldType(j)

(***************************************************************************)
(* Response bodies.  Sample(ty) is a JSON document of the shape ty asks    *)
(* for; the bodies a server sends are such documents and variations of     *)
(* them: a member missing, an unknown token, two shapes in one object, a   *)
(* body that is not JSON.                                                  *)
(***************************************************************************)
RECURSIVE Sample(_)
Sample(ty) ==
    CASE ty.k = "string"   -> JStr(<<"s">>)
      [] ty.k = "bool"     -> JBool(TRUE)
      [] ty.k = "unsigned" -> JNum(1)
      [] ty.k = "signed"   -> JNum(1)
      [] ty.k = "float"    -> JNum(1)
      [] ty.k = "amount"   -> JStr(<<"2", "0", ".", "5", "0">>)
      [] ty.k = "srn"      -> JStr(<<"account", ":", "x">>)
      [] ty.k = "option"   -> Sample(ty.of)
      [] ty.k = "vec"      -> JArr(<<Sample(ty.of)>>)
      [] ty.k = "map"      ->
            LET key == IF ty.key.k = "enum"
                       THEN CHOOSE tok \in DOMAIN ty.key.tokens : TRUE
                       ELSE "k"
            IN  JObj([y \in {key} |-> Sample(ty.val)])
      [] ty.k = "struct"   ->
            JObj([key \in { ty.fields[i][2] : i \in 1..Len(ty.fields) } |->
                    Sample(ty.fields[CHOOSE i \in 1..Len(ty.fields) : ty.fields[i][2] = key][3])])
      [] ty.k = "flat_struct" ->
            JObj([key \in { ty.fields[i][2] : i \in 1..Len(ty.fields) } |->
                    Sample(ty.fields[CHOOSE i \in 1..Len(ty.fields) : ty.fields[i][2] = key][3])]
                 @@ Sample(ty.flat).v)
      [] ty.k = "enum"     -> JStr(<<CHOOSE tok \in DOMAIN ty.tokens : TRUE>>)
      [] ty.k = "profile_field_type" ->
            JObj([fieldType |-> JStr(<<"STRING">>), value |-> JStr(<<"s">>)])
      [] ty.k = "user_field_type" -> JStr(<<"s">>)

\* The object j with member key set to x / without member key.
Set(j, key, x) == JObj(With(j.v, key, x))

Unset(j, key) == JObj(Without(j.v, key))

\* A body that cannot be read or is not JSON.
Malformed == [t |-> "malformed"]

\* error.rs: exception (a selection) and a kind the client does not list.
ExceptionKinds ==
    {"ValidationException", "RateLimitException", "UnknownException", "BrandNewException"}

ApiErrorBody(kind, transient) ==
    Set(Set(Sample(ApiError), "type", JStr(<<kind>>)), "transient", JBool(transient))

ApiErrorBodies == { ApiErrorBody(kind, tr) : kind \in ExceptionKinds, tr \in BOOLEAN }

\* The types the operations deserialize a 200 response into.
ResponseTypes == {MasterAccount, Account, PaymentMethod, PaymentMethodList, Transfer, User}

\* A payment method whose owner has an SRN type the client does not know.
UnknownSrnPaymentMethod == Set(Sample(PaymentMethod), "owner", JStr(<<"bogus", ":", "x">>))

\* A profile field whose fieldType the client does not know.
UnknownFieldTypeProfileField == Set(Sample(ProfileField), "fieldType", JStr(<<"BOGUS">>))

SuccessBodies ==
    { Sample(ty) : ty \in ResponseTypes }
    \cup { Unset(Sample(ty), "id") : ty \in {Account, Transfer} }
    \cup { UnknownSrnPaymentMethod,
           Set(Sample(PaymentMethodList), "data", JArr(<<UnknownSrnPaymentMethod>>)),
           Set(Sample(MasterAccount), "paymentMethods", JArr(<<UnknownSrnPaymentMethod>>)),
           Set(Sample(Account), "profileFields", JArr(<<UnknownFieldTypeProfileField>>)),
           Set(Sample(User), "status", JStr(<<"BOGUS">>)),
           Set(Sample(Transfer), "sourceCurrency", JStr(<<"XYZ">>)),
           Set(Sample(Transfer), "status", JStr(<<"COMPLETED">>)) }

\* Objects that carry the members of a response type and of ApiError at once.
MixedBodies ==
    { JObj(Sample(ty).v @@ ApiErrorBody("ValidationException", TRUE).v) :
        ty \in {Account, Transfer, User} }

Bodies ==
    SuccessBodies \cup MixedBodies \cup ApiErrorBodies
    \cup { Unset(ApiErrorBody("ValidationException", FALSE), "transient"), Malformed, JNull }

\* reqwest::StatusCode values a server answers with.
StatusCodes == {200, 201, 404, 500}

\* A body that does not deserialize as T taken as a defaulted T.
response_json_defaulted(ty, body) ==
    IF body.t = "malformed" THEN Err([reqwest |-> "decode"])
    ELSE LET r == Decode(ty, body)
         IN  IF r.ok THEN r ELSE Ok([defaulted |-> ty.name])

\* reqwest::Response::json::<T>(): the body is read and deserialized as T; a
\* failure of either is a reqwest::Error.
response_json(ty, body) ==
    IF body.t = "malformed" THEN Err([reqwest |-> "decode"])
    ELSE LET r == Decode(ty, body)
         IN  IF r.ok THEN r ELSE Err([reqwest |-> "decode", source |-> r.error])

(***************************************************************************)
(* Requests (reqwest::RequestBuilder).  A builder is Ok(request) or, once  *)
(* a step of the chain failed, Err(builder error); every later step leaves *)
(* a failed builder as it is.                                              *)
(***************************************************************************)
\* environment.rs: Environment
Environments == {"Test", "Production"}

\* One base URL whatever the environment.
api_url_production(environment) == "https://api.sendwyre.com"

\* Environment::api_url
api_url(environment) ==
    CASE environment = "Test"       -> "https://api.testwyre.com"
      [] environment = "Production" -> "https://api.sendwyre.com"

\* ReqwestClient::get / ReqwestClient::post
http_request(method, url) ==
    Ok([method |-> method, url |-> url, query |-> <<>>, headers |-> <<>>, body |-> None])

\* RequestBuilder::query over a slice of (name, value) pairs: serde_urlencoded
\* appends one pair per tuple.
query(rb, pairs) ==
    IF rb.ok THEN Ok([rb.value EXCEPT !.query = @ \o pairs]) ELSE rb

\* RequestBuilder::query over a struct: serde_urlencoded appends one pair per
\* field, in the order of the fields, and nothing for a field that is None
\* (fields is a sequence of <<name, Option value>>).
RECURSIVE urlencoded_fields(_)
urlencoded_fields(fields) ==
    IF fields = <<>> THEN <<>>
    ELSE (IF Head(fields)[2].some THEN <<<<Head(fields)[1], Head(fields)[2].v>>>> ELSE <<>>)
         \o urlencoded_fields(Tail(fields))

query_struct(rb, fields) == query(rb, urlencoded_fields(fields))

\* RequestBuilder::query over a slice of strings: an element that is not a
\* (name, value) pair is refused by serde_urlencoded ("unsupported pair"),
\* and the builder keeps the error.
query_strs(rb, strs) ==
    IF ~rb.ok THEN rb
    ELSE IF strs = <<>> THEN rb
    ELSE Err([reqwest |-> "builder", source |-> "unsupported pair"])

\* RequestBuilder::header: a value with a byte no header may hold is refused.
ValidHeaderValue(v) == \A i \in 1..Len(v) : v[i] # "\n"

header(rb, name, v) ==
    IF ~rb.ok THEN rb
    ELSE IF ~ValidHeaderValue(v) THEN Err([reqwest |-> "builder", source |-> "invalid header value"])
    ELSE Ok([rb.value EXCEPT !.headers = @ \o <<<<name, v>>>>])

\* RequestBuilder::bearer_auth
bearer_auth(rb, token) == header(rb, "authorization", <<"Bearer ">> \o token)

\* RequestBuilder::json: the serialized value becomes the body, with the
\* content type of JSON unless one is set.
json(rb, value) ==
    IF ~rb.ok THEN rb
    ELSE LET typed == IF \E i \in 1..Len(rb.value.headers) : rb.value.headers[i][1] = "content-type"
                      THEN rb
                      ELSE header(rb, "content-type", <<"application/json">>)
         IN  Ok([typed.value EXCEPT !.body = Some([json |-> value])])

\* RequestBuilder::body
RequestBuilder_body(rb, bytes) ==
    IF rb.ok THEN Ok([rb.value EXCEPT !.body = Some([bytes |-> bytes])]) ELSE rb

\* usize::to_string: the decimal digits of n.
RECURSIVE usize_to_string(_)
usize_to_string(n) ==
    LET d == <<"0", "1", "2", "3", "4", "5", "6", "7", "8", "9">>
    IN  IF n < 10 THEN <<d[n + 1]>>
        ELSE usize_to_string(n \div 10) \o <<d[(n % 10) + 1]>>

\* impl ToString for UserScope
UserScope_to_string(scope) ==
    CASE scope = "Transfer"    -> <<"TRANSFER">>
      [] scope = "ACH"         -> <<"ACH">>
      [] scope = "DebitCardL2" -> <<"DEBIT_CARD_L2">>

\* ProfileFieldId written by its variant name.
ProfileFieldId_fmt_variant_name(id) == <<id>>

\* impl Display for ProfileFieldId
ProfileFieldId_fmt(id) ==
    CASE id = "IndividualLegalName"            -> <<"individualLegalName">>
      [] id = "IndividualCellphoneNumber"      -> <<"individualCellphoneNumber">>
      [] id = "IndividualEmail"                -> <<"individualEmail">>
      [] id = "IndividualResidenceAddress"     -> <<"individualResidenceAddress">>
      [] id = "IndividualGovernmentId"         -> <<"individualGovernmentId">>
      [] id = "IndividualDateOfBirth"          -> <<"individualDateOfBirth">>
      [] id = "IndividualSsn"                  -> <<"individualSsn">>
      [] id = "IndividualSourceOfFunds"        -> <<"individualSourceOfFunds">>
      [] id = "IndividualProofOfAddress"       -> <<"individualProofOfAddress">>
      [] id = "IndividualAchAuthorizationForm" -> <<"individualAchAuthorizationForm">>

\* common.rs: DocumentType, serialized (SCREAMING_SNAKE_CASE)
DocumentType_serialize(ty) ==
    CASE ty = "GovtId"         -> <<"GOVT_ID">>
      [] ty = "DrivingLicense" -> <<"DRIVING_LICENSE">>
      [] ty = "PassportCard"   -> <<"PASSPORT_CARD">>
      [] ty = "Passport"       -> <<"PASSPORT">>

\* account.rs: DocumentSubType, serialized (SCREAMING_SNAKE_CASE)
DocumentSubType_serialize(ty) ==
    CASE ty = "Front" -> <<"FRONT">>
      [] ty = "Back"  -> <<"BACK">>

\* masquerade.map(|srn| srn.to_string()).unwrap_or_else(String::new)
masquerade_or_empty(masquerade) ==
    IF masquerade.some THEN Srn_to_string(masquerade.v) ELSE <<>>

\* masquerade.as_ref().map(ToString::to_string)
masquerade_as_option(masquerade) ==
    IF masquerade.some THEN Some(Srn_to_string(masquerade.v)) ELSE None

(***************************************************************************)
(* Request bodies (derived Serialize).                                     *)
(***************************************************************************)
\* payment_method.rs: PaymentMethodType
PaymentMethodType ==
    TEnum("PaymentMethodType",
          [WIRE_TRANSFER |-> "WireTransfer", LOCAL_TRANSFER |-> "LocalTransfer"], None)

\* payment_method.rs: AchPaymentMethodCountry
AchPaymentMethodCountry == TEnum("AchPaymentMethodCountry", [US |-> "US"], None)

\* user.rs: UserScope.  rename_all = "SCREAMING_SNAKE_CASE" puts a "_" before
\* every capital but the first: ACH is written A_C_H.
UserScope ==
    TEnum("UserScope",
          [TRANSFER |-> "Transfer", A_C_H |-> "ACH", DEBIT_CARD_L2 |-> "DebitCardL2"], None)

\* account.rs: CreateProfileField
CreateProfileField ==
    TFlatStruct("CreateProfileField",
        << <<"field_id", "fieldId", ProfileFieldId>> >>,
        "value", TProfileFieldType)

\* account.rs: CreateAccount
CreateAccount ==
    TStruct("CreateAccount",
        << <<"kind", "type", AccountType>>,
           <<"country", "country", TString>>,
           <<"profile_fields", "profileFields", TVec(CreateProfileField)>>,
           <<"referrer_account_id", "referrerAccountId", TOption(TString)>>,
           <<"subaccount", "subaccount", TOption(TBool)>>,
           <<"disable_email", "disableEmail", TOption(TBool)>> >>)

\* account.rs: UpdateAccount
UpdateAccount ==
    TStruct("UpdateAccount",
        << <<"profile_fields", "profileFields", TVec(CreateProfileField)>> >>)

\* payment_method.rs: CreateAchPaymentMethod
CreateAchPaymentMethod ==
    TStruct("CreateAchPaymentMethod",
        << <<"plaid_processor_token", "plaidProcessorToken", TString>>,
           <<"payment_method_type", "paymentMethodType", PaymentMethodType>>,
           <<"country", "country", AchPaymentMethodCountry>> >>)

\* transfer.rs: CreateTransfer
CreateTransfer ==
    TStruct("CreateTransfer",
        << <<"source", "source", TString>>,
           <<"source_amount", "sourceAmount", TOption(TAmount)>>,
           <<"source_currency", "sourceCurrency", Currency>>,
           <<"dest", "dest", TString>>,
           <<"dest_amount", "destAmount", TOption(TAmount)>>,
           <<"dest_currency", "destCurrency", TOption(Currency)>>,
           <<"message", "message", TOption(TString)>>,
           <<"notify_url", "notifyUrl", TOption(TString)>>,
           <<"auto_confirm", "autoConfirm", TOption(TBool)>>,
           <<"custom_id", "customId", TOption(TString)>>,
           <<"amount_includes_fees", "amountIncludesFees", TOption(TBool)>>,
           <<"preview", "preview", TOption(TBool)>>,
           <<"mute_messages", "muteMessages", TOption(TBool)>> >>)

\* user.rs: ModifyUser
ModifyUser ==
    TStruct("ModifyUser",
        << <<"blockchains", "blockchains", TVec(TString)>>,
           <<"immediate", "immediate", TBool>>,
           <<"fields", "fields", TMap(UserFieldId, TUserFieldType)>>,
           <<"scopes", "scopes", TVec(UserScope)>> >>)

\* The wire token of a unit variant.
EnumToken(ty, variant) == CHOOSE tok \in DOMAIN ty.tokens : ty.tokens[tok] = variant

\* BigDecimal's Serialize: the decimal's text, as a JSON string.
BigDecimal_to_string(d) ==
    (IF d.neg THEN <<"-">> ELSE <<>>) \o d.int
        \o (IF d.frac = <<>> THEN <<>> ELSE <<".">> \o d.frac)

RECURSIVE Encode(_, _)
\* A derived struct: one member per field, under the field's JSON key.
EncodeStruct(fields, v) ==
    JObj([key \in { fields[i][2] : i \in 1..Len(fields) } |->
            LET i == CHOOSE n \in 1..Len(fields) : fields[n][2] = key
            IN  Encode(fields[i][3], v[fields[i][1]])])

\* ProfileFieldType with the payload written under "content".
EncodeProfileFieldType_content_key(v) ==
    JObj([fieldType |-> JStr(<<CHOOSE tok \in DOMAIN ProfileFieldTypeTokens :
                                  ProfileFieldTypeTokens[tok] = v.variant>>),
          content   |-> Encode(ProfileFieldTypeContent(v.variant), v.value)])

\* ProfileFieldType: the tag under "fieldType", the payload under "value".
EncodeProfileFieldType(v) ==
    JObj([fieldType |-> JStr(<<CHOOSE tok \in DOMAIN ProfileFieldTypeTokens :
                                  ProfileFieldTypeTokens[tok] = v.variant>>),
          value     |-> Encode(ProfileFieldTypeContent(v.variant), v.value)])

\* UserFieldType (untagged): the payload alone.
EncodeUserFieldType(v) ==
    IF v.variant = "String" THEN Encode(TOption(TString), v.value)
    ELSE Encode(TOption(Address), v.value)

\* serde::Serialize, by the type's derive.
Encode(ty, v) ==
    CASE ty.k = "string"   -> JStr(v)
      [] ty.k = "bool"     -> JBool(v)
      [] ty.k = "unsigned" -> JNum(v)
      [] ty.k = "signed"   -> JNum(v)
      [] ty.k = "amount"   -> JStr(BigDecimal_to_string(v))
      [] ty.k = "srn"      -> JStr(Srn_to_string(v))
      [] ty.k = "option"   -> IF v.some THEN Encode(ty.of, v.v) ELSE JNull
      [] ty.k = "vec"      -> JArr([i \in 1..Len(v) |-> Encode(ty.of, v[i])])
      [] ty.k = "map"      ->
            JObj([tok \in { EnumToken(ty.key, key) : key \in DOMAIN v } |->
                    Encode(ty.val, v[ty.key.tokens[tok]])])
      [] ty.k = "struct"   -> EncodeStruct(ty.fields, v)
      [] ty.k = "flat_struct" ->
            JObj(EncodeStruct(ty.fields, v).v @@ Encode(ty.flat, v[ty.flatName]).v)
      [] ty.k = "enum"     -> JStr(<<EnumToken(ty, v)>>)
      [] ty.k = "profile_field_type" -> EncodeProfileFieldType(v)
      [] ty.k = "user_field_type"    -> EncodeUserFieldType(v)

(***************************************************************************)
(* The client and the arguments of its operations.                         *)
(***************************************************************************)
\* Credentials a caller constructs the client with; a secret may hold a
\* byte no header value may hold.
ApiKeys == { <<"K1">>, <<"K2">> }

ApiSecrets == { <<"S1">>, <<"S2", "\n">> }

\* Client::new
Client_new(api_key, api_secret, environment) ==
    [environment |-> environment, _api_key |-> api_key, api_secret |-> api_secret]

Clients ==
    { Client_new(k, s, e) : k \in ApiKeys, s \in ApiSecrets, e \in Environments }

\* The credential a request would carry if the key were the bearer token.
expose_key(c) == c._api_key

\* SecretString::expose_secret on the client's api_secret
expose_secret(c) == c.api_secret

Ids == { <<"id1">> }

Masquerades ==
    { None, Some(Srn("Account", <<"x">>)), Some(Srn("AchPaymentMethod", <<"x">>)) }

CreateProfileFields ==
    << [field_id |-> "IndividualLegalName",
        value    |-> [variant |-> "String", value |-> Some(<<"s">>)]] >>

CreateAccounts ==
    { [kind |-> "Individual", country |-> <<"US">>, profile_fields |-> pf,
       referrer_account_id |-> None, subaccount |-> sub, disable_email |-> None] :
        pf \in {<<>>, CreateProfileFields}, sub \in {None, Some(TRUE)} }

UpdateAccounts == { [profile_fields |-> CreateProfileFields] }

CreateAchPaymentMethods ==
    { [plaid_processor_token |-> <<"token">>, payment_method_type |-> "LocalTransfer",
       country |-> "US"] }

CreateTransfers ==
    { [source |-> <<"account", ":", "x">>,
       source_amount |-> amount, source_currency |-> "USD",
       dest |-> <<"bitcoin", ":", "x">>, dest_amount |-> None, dest_currency |-> Some("BTC"),
       message |-> None, notify_url |-> None, auto_confirm |-> Some(FALSE),
       custom_id |-> None, amount_includes_fees |-> None, preview |-> None,
       mute_messages |-> None] :
        amount \in { None, Some([neg |-> FALSE, int |-> <<"1", "0">>, frac |-> <<"5">>]) } }

UserScopes == { "Transfer", "ACH", "DebitCardL2" }

ModifyUsers ==
    { [blockchains |-> << <<"BTC">> >>, immediate |-> TRUE,
       fields |-> [f \in {"FirstName"} |-> [variant |-> "String", value |-> Some(<<"s">>)]],
       scopes |-> scopes] :
        scopes \in { <<>>, <<"Transfer">> } }

ContentTypes == { <<"image/png">>, <<"image/png", "\n">> }

UploadDocuments ==
    { [field_id |-> f, document_type |-> dt, document_sub_type |-> st,
       document |-> <<"bytes">>, content_type |-> ct] :
        f  \in {"IndividualGovernmentId", "IndividualProofOfAddress"},
        dt \in {None, Some("GovtId")},
        st \in {None, Some("Front")},
        ct \in ContentTypes }

\* The fields update_user_document reads of its UserDocumentUpload argument.
UserDocumentUploads ==
    { [field_id |-> <<"governmentId">>, doc_type |-> <<"GOVT_ID">>,
       document |-> <<"bytes">>, content_type |-> ct] : ct \in ContentTypes }

Offsets == { 0 }

Limits == { 10, 25 }

CountryCodes == { None, Some(<<"US">>) }

\* The operations that take a masquerade argument.
MasqueradeOps ==
    { "get_account", "update_account", "upload_document", "create_ach_payment_method",
      "get_payment_methods", "create_transfer", "get_transfer", "get_user", "update_user" }

\* error.rs: Error
Error_Api(e) == [variant |-> "Api", e |-> e]

Error_Transport(e) == [variant |-> "Transport", e |-> e]

\* impl From<ReqwestError> for Error
Error_from(e) == Error_Transport(e)

\* The type an operation deserializes a 200 response into.  (OnboardingUrl,
\* that of get_kyc_onboarding_url, is not defined in the sources; that
\* operation fails before it has a response.)
SuccessType(op) ==
    CASE op = "get_master_account"                 -> MasterAccount
      [] op \in {"create_account", "get_account", "update_account", "upload_document"}
                                                   -> Account
      [] op = "create_ach_payment_method"          -> PaymentMethod
      [] op = "get_payment_methods"                -> PaymentMethodList
      [] op \in {"create_transfer", "get_transfer"} -> Transfer
      [] op \in {"create_user", "get_user", "update_user", "update_user_document"}
                                                   -> User

\* A status that is not 200 taken as a success too.
match_status_2xx(ty, status, b) ==
    IF status \in 200..299
    THEN LET r == response_json(ty, b)
         IN  IF r.ok THEN Ok(r.value) ELSE Err(Error_from(r.error))
    ELSE LET r == response_json(ApiError, b)
         IN  IF r.ok THEN Err(Error_Api(r.value)) ELSE Err(Error_from(r.error))

\* The error body of a status that is not 200 never read.
match_status_unread(ty, status, b) ==
    IF status = 200
    THEN LET r == response_json(ty, b)
         IN  IF r.ok THEN Ok(r.value) ELSE Err(Error_from(r.error))
    ELSE Err(Error_from([reqwest |-> "status"]))

\* match status { StatusCode::OK => Ok(response.json().await?),
\*                _ => Err(Error::Api(response.json().await?)) }
match_status(ty, status, b) ==
    IF status = 200
    THEN LET r == response_json(ty, b)
         IN  IF r.ok THEN Ok(r.value) ELSE Err(Error_from(r.error))
    ELSE LET r == response_json(ApiError, b)
         IN  IF r.ok THEN Err(Error_Api(r.value)) ELSE Err(Error_from(r.error))

\* format!: the pieces of a URL, in order.
format_url(environment, pieces) == <<api_url(environment)>> \o pieces

\* country_code.as_deref().unwrap_or_default()
unwrap_or_default(o) == IF o.some THEN o.v ELSE <<>>

(***************************************************************************)
(* The operations of the client.  An operation builds its request and      *)
(* hands it to send(); it resumes when the transport fails or a response   *)
(* arrives, and then returns.                                              *)
(***************************************************************************)
\* upload_document: UploadDocumentQueryParams
UploadDocumentQueryParams(document, masquerade) ==
    << <<"documentType", IF document.document_type.some
                         THEN Some(DocumentType_serialize(document.document_type.v))
                         ELSE None>>,
       <<"documentSubType", IF document.document_sub_type.some
                            THEN Some(DocumentSubType_serialize(document.document_sub_type.v))
                            ELSE None>>,
       <<"masqueradeAs", masquerade_as_option(masquerade)>> >>

\* RequestBuilder::send().await?: a builder that holds an error returns it
\* without a request leaving; otherwise the request is dispatched.
send(op, args, rb) ==
    /\ pc = "idle"
    /\ call' = Some([op |-> op, args |-> args])
    /\ request' = Some(rb)
    /\ response' = None
    /\ IF rb.ok
       THEN /\ sent' = Append(sent, rb.value)
            /\ pc' = "sent"
            /\ result' = None
       ELSE /\ sent' = sent
            /\ pc' = "returned"
            /\ result' = Some(Err(Error_from(rb.error)))
    /\ UNCHANGED <<client, waiting, srnVars, fnVars>>

\* Client::get_master_account
get_master_account ==
    LET url == format_url(client.environment, <<"/v2/account">>)
        rb0 == http_request("GET", url)
        rb1 == bearer_auth(rb0, expose_secret(client))
    IN  send("get_master_account", [none |-> TRUE], rb1)

\* Client::create_account
create_account ==
    \E body \in CreateAccounts :
        LET url == format_url(client.environment, <<"/v3/accounts">>)
            rb0 == http_request("POST", url)
            rb1 == bearer_auth(rb0, expose_secret(client))
            rb2 == json(rb1, Encode(CreateAccount, body))
        IN  send("create_account", [body |-> body], rb2)

\* Client::get_account
get_account ==
    \E account_id \in Ids, masquerade \in Masquerades :
        LET url == format_url(client.environment, <<"/v3/accounts/">> \o account_id)
            rb0 == http_request("GET", url)
            rb1 == query(rb0, << <<"masqueradeAs", masquerade_or_empty(masquerade)>> >>)
            rb2 == bearer_auth(rb1, expose_secret(client))
        IN  send("get_account", [account_id |-> account_id, masquerade |-> masquerade], rb2)

\* Client::update_account
update_account ==
    \E account_id \in Ids, update \in UpdateAccounts, masquerade \in Masquerades :
        LET url == format_url(client.environment, <<"/v3/accounts/">> \o account_id)
            rb0 == http_request("POST", url)
            rb1 == query(rb0, << <<"masqueradeAs", masquerade_or_empty(masquerade)>> >>)
            rb2 == bearer_auth(rb1, expose_secret(client))
            rb3 == json(rb2, Encode(UpdateAccount, update))
        IN  send("update_account", [account_id |-> account_id, update |-> update, masquerade |-> masquerade], rb3)

\* Client::upload_document
upload_document ==
    \E account_id \in Ids, document \in UploadDocuments, masquerade \in Masquerades :
        LET url == format_url(client.environment, <<"/v3/accounts/">> \o account_id \o <<"/">> \o ProfileFieldId_fmt(document.field_id))
            rb0 == http_request("POST", url)
            rb1 == query_struct(rb0, UploadDocumentQueryParams(document, masquerade))
            rb2 == bearer_auth(rb1, expose_secret(client))
            rb3 == header(rb2, "content-type", document.content_type)
            rb4 == RequestBuilder_body(rb3, document.document)
        IN  send("upload_document", [account_id |-> account_id, document |-> document, masquerade |-> masquerade], rb4)

\* Client::create_ach_payment_method
create_ach_payment_method ==
    \E body \in CreateAchPaymentMethods, masquerade \in Masquerades :
        LET url == format_url(client.environment, <<"/v2/paymentMethods">>)
            rb0 == http_request("POST", url)
            rb1 == query(rb0, << <<"masqueradeAs", masquerade_or_empty(masquerade)>> >>)
            rb2 == bearer_auth(rb1, expose_secret(client))
            rb3 == json(rb2, Encode(CreateAchPaymentMethod, body))
        IN  send("create_ach_payment_method", [body |-> body, masquerade |-> masquerade], rb3)

\* Client::get_payment_methods
get_payment_methods ==
    \E masquerade \in Masquerades, offset \in Offsets, limit \in Limits :
        LET url == format_url(client.environment, <<"/v2/paymentMethods">>)
            rb0 == http_request("GET", url)
            rb1 == query(rb0, << <<"offset", usize_to_string(offset)>>,
                           <<"limit", usize_to_string(limit)>>,
                           <<"masqueradeAs", masquerade_or_empty(masquerade)>> >>)
            rb2 == bearer_auth(rb1, expose_secret(client))
        IN  send("get_payment_methods", [masquerade |-> masquerade, offset |-> offset, limit |-> limit], rb2)

\* Client::create_transfer
create_transfer ==
    \E body \in CreateTransfers, masquerade \in Masquerades :
        LET url == format_url(client.environment, <<"/v3/transfers">>)
            rb0 == http_request("POST", url)
            rb1 == query(rb0, << <<"masqueradeAs", masquerade_or_empty(masquerade)>> >>)
            rb2 == bearer_auth(rb1, expose_secret(client))
            rb3 == json(rb2, Encode(CreateTransfer, body))
        IN  send("create_transfer", [body |-> body, masquerade |-> masquerade], rb3)

\* Client::get_transfer
get_transfer ==
    \E transfer_id \in Ids, masquerade \in Masquerades :
        LET url == format_url(client.environment, <<"/v3/transfers/">> \o transfer_id)
            rb0 == http_request("GET", url)
            rb1 == query(rb0, << <<"masqueradeAs", masquerade_or_empty(masquerade)>> >>)
            rb2 == bearer_auth(rb1, expose_secret(client))
        IN  send("get_transfer", [transfer_id |-> transfer_id, masquerade |-> masquerade], rb2)

\* Client::create_user
create_user ==
    \E req \in ModifyUsers :
        LET url == format_url(client.environment, <<"/v3/users">>)
            rb0 == http_request("POST", url)
            rb1 == json(rb0, Encode(ModifyUser, req))
            rb2 == bearer_auth(rb1, expose_secret(client))
        IN  send("create_user", [req |-> req], rb2)

\* Client::get_user
get_user ==
    \E user_id \in Ids, scope \in UserScopes, masquerade \in Masquerades :
        LET url == format_url(client.environment, <<"/v3/users/">> \o user_id)
            rb0 == http_request("GET", url)
            rb1 == query(rb0, << <<"masqueradeAs", masquerade_or_empty(masquerade)>>,
                           <<"scopes", UserScope_to_string(scope)>> >>)
            rb2 == bearer_auth(rb1, expose_secret(client))
        IN  send("get_user", [user_id |-> user_id, scope |-> scope, masquerade |-> masquerade], rb2)

\* Client::update_user
update_user ==
    \E user_id \in Ids, req \in ModifyUsers, masquerade \in Masquerades :
        LET url == format_url(client.environment, <<"/v3/users/">> \o user_id)
            rb0 == http_request("POST", url)
            rb1 == query(rb0, << <<"masqueradeAs", masquerade_or_empty(masquerade)>> >>)
            rb2 == json(rb1, Encode(ModifyUser, req))
            rb3 == bearer_auth(rb2, expose_secret(client))
        IN  send("update_user", [user_id |-> user_id, req |-> req, masquerade |-> masquerade], rb3)

\* Client::get_kyc_onboarding_url
get_kyc_onboarding_url ==
    \E user_id \in Ids, country_code \in CountryCodes :
        LET url == format_url(client.environment, <<"/v3/users/">> \o user_id \o <<"/onboarding">>)
            rb0 == http_request("GET", url)
            rb1 == query_strs(rb0, << <<"countryCode">>, unwrap_or_default(country_code) >>)
            rb2 == bearer_auth(rb1, expose_secret(client))
        IN  send("get_kyc_onboarding_url", [user_id |-> user_id, country_code |-> country_code], rb2)

\* Client::update_user_document
update_user_document ==
    \E user_id \in Ids, req \in UserDocumentUploads :
        LET url == format_url(client.environment, <<"/v3/users/">> \o user_id \o <<"/">> \o req.field_id)
            rb0 == http_request("POST", url)
            rb1 == query(rb0, << <<"docType", req.doc_type>> >>)
            rb2 == header(rb1, "content-type", req.content_type)
            rb3 == RequestBuilder_body(rb2, req.document)
            rb4 == bearer_auth(rb3, expose_secret(client))
        IN  send("update_user_document", [user_id |-> user_id, req |-> req], rb4)

\* A request that could not be delivered dispatched once more.
SendFailsAndRetries ==
    /\ pc = "sent"
    /\ Len(sent) < 3
    /\ sent' = Append(sent, sent[1])
    /\ UNCHANGED <<client, pc, call, request, response, result, waiting, srnVars, fnVars>>

\* send().await? when the request cannot be delivered or no response comes
\* back: the reqwest error is returned as Error::Transport.
SendFails ==
    /\ pc = "sent"
    /\ pc' = "returned"
    /\ result' = Some(Err(Error_from([reqwest |-> "request"])))
    /\ UNCHANGED <<client, call, request, sent, response, waiting, srnVars, fnVars>>

\* A response arrives and the operation matches on its status.
Respond ==
    /\ pc = "sent"
    /\ \E status \in StatusCodes, b \in Bodies :
        /\ response' = Some([status |-> status, body |-> b])
        /\ result' = Some(match_status(SuccessType(call.v.op), status, b))
    /\ pc' = "returned"
    /\ UNCHANGED <<client, call, request, sent, waiting, srnVars, fnVars>>

\* The caller takes the result; the client is ready for the next call.
Return ==
    /\ pc = "returned"
    /\ pc' = "idle"
    /\ call' = None
    /\ request' = None
    /\ sent' = <<>>
    /\ response' = None
    /\ result' = None
    /\ UNCHANGED <<client, waiting, srnVars, fnVars>>

Init ==
    /\ srn = None
    /\ text = None
    /\ decoded = None
    /\ client \in Clients
    /\ pc = "idle"
    /\ call = None
    /\ request = None
    /\ sent = <<>>
    /\ response = None
    /\ result = None
    /\ waiting = None
    /\ input = None
    /\ output = None

Next ==
    \/ get_master_account
    \/ create_account
    \/ get_account
    \/ update_account
    \/ upload_document
    \/ create_ach_payment_method
    \/ get_payment_methods
    \/ create_transfer
    \/ get_transfer
    \/ create_user
    \/ get_user
    \/ update_user
    \/ get_kyc_onboarding_url
    \/ update_user_document
    \/ SendFails
    \/ Respond
    \/ Return

Spec == Init /\ [][Next]_vars

(***************************************************************************)
(* Properties of the client.                                               *)
(***************************************************************************)
\* The values, in order, of the query pairs of req named name.
RECURSIVE PairValues(_, _)
PairValues(pairs, name) ==
    IF pairs = <<>> THEN <<>>
    ELSE (IF Head(pairs)[1] = name THEN <<Head(pairs)[2]>> ELSE <<>>)
         \o PairValues(Tail(pairs), name)

\* The atoms of text anywhere in a JSON value, member names included.
RECURSIVE JsonAtoms(_)
JsonAtoms(j) ==
    CASE j.t = "str" -> Elems(j.v)
      [] j.t = "arr" -> UNION { JsonAtoms(j.v[i]) : i \in 1..Len(j.v) }
      [] j.t = "obj" -> DOMAIN j.v \cup UNION { JsonAtoms(j.v[key]) : key \in DOMAIN j.v }
      [] OTHER       -> {}

\* The atoms of text anywhere in a request: URL, query, headers and body.
RequestAtoms(req) ==
    Elems(req.url)
    \cup UNION { {req.query[i][1]} \cup Elems(req.query[i][2]) : i \in 1..Len(req.query) }
    \cup UNION { {req.headers[i][1]} \cup Elems(req.headers[i][2]) : i \in 1..Len(req.headers) }
    \cup (IF ~req.body.some THEN {}
          ELSE IF "json" \in DOMAIN req.body.v THEN JsonAtoms(req.body.v.json)
          ELSE Elems(req.body.v.bytes))

\* The operation in progress has its response and has returned.
Answered == pc = "returned" /\ response.some

\* The body b is JSON of the shape of ty.
Matches(ty, b) == b.t # "malformed" /\ Decode(ty, b).ok

IsTransport(r) == ~r.ok /\ r.error.variant = "Transport"

IsApi(r) == ~r.ok /\ r.error.variant = "Api"

\* C6: every request of an operation that takes a masquerade argument carries
\* exactly one masqueradeAs query parameter: the empty string when the
\* argument is absent, the SRN's textual form when it is present.
C6_MasqueradeAlwaysSent ==
    \A i \in 1..Len(sent) :
        call.v.op \in MasqueradeOps =>
            PairValues(sent[i].query, "masqueradeAs")
                = << IF call.v.args.masquerade.some
                     THEN Srn_to_string(call.v.args.masquerade.v)
                     ELSE <<>> >>

\* C7: a response with status 200 whose body deserializes as the operation's
\* success type yields Ok of the deserialized value; a response with another
\* status whose body deserializes as ApiError yields Error::Api with the
\* "type" and "transient" members of the body.
C7_StatusAndBodyDecideResult ==
    Answered =>
        LET status  == response.v.status
            b       == response.v.body
            success == SuccessType(call.v.op)
        IN  /\ (status = 200 /\ Matches(success, b)) => result.v = Ok(Decode(success, b).value)
            /\ (status # 200 /\ Matches(ApiError, b)) =>
                    /\ IsApi(result.v)
                    /\ result.v.error.e.kind = b.v["type"].v
                    /\ result.v.error.e.transient = b.v["transient"].v

C7_Witness ==
    /\ Answered
    /\ call.v.op = "get_payment_methods"
    /\ response.v.status = 200
    /\ response.v.body = Sample(PaymentMethodList)
    /\ result.v.ok
    /\ result.v.value.data[1].srn = Srn("Account", <<"x">>)

\* C8 as stated: every response whose status is not 200, whatever its body,
\* yields Error::Api.
C8_Non200IsApiError ==
    (Answered /\ response.v.status # 200) => IsApi(result.v)

\* C8 amended: a response whose status is not 200 never yields Ok; it yields
\* Error::Api when its body deserializes as ApiError and Error::Transport
\* when it does not.
C8_Non200IsNeverOk ==
    (Answered /\ response.v.status # 200) =>
        /\ ~result.v.ok
        /\ IF Matches(ApiError, response.v.body)
           THEN IsApi(result.v)
           ELSE IsTransport(result.v)

C8_Witness ==
    /\ Answered
    /\ response.v.status = 201
    /\ response.v.body = Sample(Account)
    /\ call.v.op = "create_account"
    /\ IsTransport(result.v)

\* C9: an operation that has returned holds exactly one of Ok, Error::Api and
\* Error::Transport; without a response (the request was refused or not
\* delivered) it is Error::Transport, and so it is when the body deserializes
\* neither as the success type (status 200) nor as ApiError (other status).
C9_ExactlyOneOutcome ==
    pc = "returned" =>
        /\ result.some
        /\ \/ result.v.ok
           \/ IsApi(result.v)
           \/ IsTransport(result.v)
        /\ ~response.some => IsTransport(result.v)
        /\ response.some =>
              LET expected == IF response.v.status = 200 THEN SuccessType(call.v.op)
                              ELSE ApiError
              IN  ~Matches(expected, response.v.body) => IsTransport(result.v)

C9_Witness ==
    /\ Answered
    /\ response.v.status = 200
    /\ call.v.op = "create_ach_payment_method"
    /\ response.v.body = UnknownSrnPaymentMethod
    /\ IsTransport(result.v)

\* C10: every request an operation dispatches carries one authorization
\* header, "Bearer " followed by the API secret, and holds the API key
\* nowhere in its URL, query, headers or body.
C10_SecretIsBearerKeyNeverSent ==
    \A i \in 1..Len(sent) :
        /\ PairValues(sent[i].headers, "authorization") = << <<"Bearer ">> \o client.api_secret >>
        /\ RequestAtoms(sent[i]) \cap Elems(client._api_key) = {}

C10_Witness ==
    /\ pc = "sent"
    /\ Len(sent) = 1
    /\ call.v.op = "update_user_document"
    /\ sent[1].body = Some([bytes |-> <<"bytes">>])
    /\ PairValues(sent[1].headers, "authorization") = << <<"Bearer ", "S1">> >>

\* The variant each status token names, for the six status enums.
StatusName ==
    [OPEN |-> "Open", PENDING |-> "Pending", APPROVED |-> "Approved", CLOSED |-> "Closed",
     AWAITING_FOLLOWUP |-> "AwaitingFollowup", ACTIVE |-> "Active", REJECTED |-> "Rejected",
     PREVIEW |-> "Preview", UNCONFIRMED |-> "Unconfirmed", COMPLETED |-> "Completed",
     EXPIRED |-> "Expired", FAILED |-> "Failed", REVERSED |-> "Reversed",
     SUBMITTED |-> "Submitted"]

\* The decoded value v has the status the JSON object j writes.
StatusKept(j, v) == v.status = StatusName[j.v["status"].v[1]]

\* C21: every status of a returned value (account, profile field, user, user
\* field, transfer, payment method) is the one the response body writes, and
\* no request the client sends has a status member or parameter.
C21_StatusOnlyDecoded ==
    /\ (Answered /\ result.v.ok) =>
          LET b  == response.v.body
              v  == result.v.value
              ty == SuccessType(call.v.op).name
          IN  /\ ty # "PaymentMethodList" => StatusKept(b, v)
              /\ ty = "Account" =>
                    \A i \in 1..Len(v.profile_fields) :
                        StatusKept(b.v["profileFields"].v[i], v.profile_fields[i])
              /\ ty = "MasterAccount" =>
                    \A i \in 1..Len(v.payment_methods) :
                        StatusKept(b.v["paymentMethods"].v[i], v.payment_methods[i])
              /\ ty = "PaymentMethodList" =>
                    \A i \in 1..Len(v.data) : StatusKept(b.v["data"].v[i], v.data[i])
              /\ ty = "User" =>
                    \A tok \in DOMAIN b.v["fields"].v :
                        StatusKept(b.v["fields"].v[tok], v.fields[UserFieldId.tokens[tok]])
    /\ \A i \in 1..Len(sent) :
          /\ PairValues(sent[i].query, "status") = <<>>
          /\ (sent[i].body.some /\ "json" \in DOMAIN sent[i].body.v) =>
                "status" \notin JsonAtoms(sent[i].body.v.json)

C21_Witness ==
    /\ Answered
    /\ call.v.op = "get_transfer"
    /\ response.v.status = 200
    /\ result.v.ok
    /\ response.v.body.v["status"].v = <<"COMPLETED">>
    /\ result.v.value.status = "Completed"

(***************************************************************************)
(* Two operations in flight on one client.  The futures of two calls share *)
(* the client by reference (&self) and nothing else; the executor runs one *)
(* of them at a time and may turn to the other wherever the one it runs    *)
(* waits for the transport.  waiting holds the operation not being run.    *)
(***************************************************************************)
\* The operations that may be left waiting while another runs.
ConcurrentOps == { "get_master_account", "get_transfer", "create_user" }

\* The state of the operation being run, as a future holds it.
Running ==
    [pc |-> pc, call |-> call, request |-> request, sent |-> sent,
     response |-> response, result |-> result]

\* An operation not yet called.
NotCalled ==
    [pc |-> "idle", call |-> None, request |-> None, sent |-> <<>>,
     response |-> None, result |-> None]

\* The operation that waits, NotCalled when there is none.
Waiting == IF waiting.some THEN waiting.v ELSE NotCalled

\* The executor leaves the operation it runs, which is not called yet or
\* waits in send().await, and runs the other one.
Switch ==
    /\ pc \in {"idle", "sent"}
    /\ pc = "sent" => call.v.op \in ConcurrentOps
    /\ waiting' = IF pc = "idle" THEN None ELSE Some(Running)
    /\ pc' = Waiting.pc
    /\ call' = Waiting.call
    /\ request' = Waiting.request
    /\ sent' = Waiting.sent
    /\ response' = Waiting.response
    /\ result' = Waiting.result
    /\ UNCHANGED <<client, srnVars, fnVars>>

NextConcurrent == Next \/ Switch

SpecConcurrent == Init /\ [][NextConcurrent]_vars

\* The result the response of an operation calls for, read off the body.
Outcome(ty, status, b) ==
    IF status = 200
    THEN IF Matches(ty, b) THEN Ok(Decode(ty, b).value)
         ELSE Err([variant |-> "Transport"])
    ELSE IF Matches(ApiError, b) THEN Err([variant |-> "Api", e |-> Decode(ApiError, b).value])
         ELSE Err([variant |-> "Transport"])

\* r is the result o calls for.
SameOutcome(r, o) ==
    /\ r.ok = o.ok
    /\ r.ok => r.value = o.value
    /\ ~r.ok => r.error.variant = o.error.variant
    /\ IsApi(r) => r.error.e = o.error.e

\* C11: whatever operations are called on a client, one after another or two
\* in flight at once, the client keeps the environment and credentials it
\* was constructed with; every request, of the operation run and of the one
\* waiting, has the base URL of that environment at the head of its URL; and
\* an operation that returns holds the result its own response calls for.
C11_ClientFixedOperationsIndependent ==
    /\ [][client' = client]_vars
    /\ [](\A o \in {Running, Waiting} : \A i \in 1..Len(o.sent) :
            o.sent[i].url[1] = IF client.environment = "Test"
                               THEN "https://api.testwyre.com"
                               ELSE "https://api.sendwyre.com")
    /\ [](Answered =>
            SameOutcome(result.v,
                        Outcome(SuccessType(call.v.op), response.v.status, response.v.body)))

C11_Witness ==
    /\ client.environment = "Test"
    /\ waiting.some
    /\ waiting.v.call.v.op = "get_transfer"
    /\ waiting.v.pc = "sent"
    /\ waiting.v.sent[1].url = <<"https://api.testwyre.com", "/v3/transfers/", "id1">>
    /\ Answered
    /\ call.v.op = "create_user"
    /\ response.v.status = 200
    /\ result.v.ok
    /\ sent[1].url = <<"https://api.testwyre.com", "/v3/users">>

\* C12: a call dispatches at most one request; a request is dispatched only
\* by the step that calls the operation, so none follows a transport failure
\* or a response, an ApiError with transient = true included; and the step
\* that follows the dispatch returns.
C12_OneRequestNoRetry ==
    /\ [](Len(sent) <= 1)
    /\ [][Len(sent') > Len(sent) => pc = "idle"]_vars
    /\ [][pc = "sent" => pc' = "returned" /\ sent' = sent]_vars
    /\ [][pc = "returned" => pc' = "idle"]_vars

C12_Witness ==
    /\ Answered
    /\ call.v.op = "create_transfer"
    /\ response.v.status = 500
    /\ IsApi(result.v)
    /\ result.v.error.e.transient = TRUE
    /\ Len(sent) = 1

(***************************************************************************)
(* Environment names and Client::from_env.  Here a text is a sequence of   *)
(* single characters, so that letter case and white space are told apart.  *)
(***************************************************************************)
\* str::to_ascii_lowercase
to_ascii_lowercase(s) ==
    LET upper == <<"A", "B", "C", "D", "E", "F", "G", "H", "I", "J", "K", "L", "M",
                   "N", "O", "P", "Q", "R", "S", "T", "U", "V", "W", "X", "Y", "Z">>
        lower == <<"a", "b", "c", "d", "e", "f", "g", "h", "i", "j", "k", "l", "m",
                   "n", "o", "p", "q", "r", "s", "t", "u", "v", "w", "x", "y", "z">>
    IN  [i \in 1..Len(s) |->
            IF \E n \in 1..Len(upper) : upper[n] = s[i]
            THEN lower[CHOOSE n \in 1..Len(upper) : upper[n] = s[i]]
            ELSE s[i]]

\* str::trim: s without its leading and trailing white space (of the
\* characters used here, the space, the tab and the line feed).
trim(s) ==
    LET black == { i \in 1..Len(s) : s[i] \notin {" ", "\t", "\n"} }
    IN  IF black = {} THEN <<>>
        ELSE SubSeq(s, CHOOSE i \in black : \A j \in black : i <= j,
                       CHOOSE i \in black : \A j \in black : j <= i)

\* The names FromStr accepts, by the environment each stands for.
TestNames ==
    { <<"d", "e", "v">>,
      <<"d", "e", "v", "e", "l", "o", "p", "m", "e", "n", "t">>,
      <<"t", "e", "s", "t">> }

ProductionNames ==
    { <<"p", "r", "o", "d">>,
      <<"p", "r", "o", "d", "u", "c", "t", "i", "o", "n">> }

\* environment.rs: EnvironmentParseError
EnvironmentParseError(val) == [EnvironmentParseError |-> val]

\* impl FromStr for Environment
Environment_from_str(s) ==
    LET val == trim(to_ascii_lowercase(s))
    IN  IF val \in TestNames THEN Ok("Test")
        ELSE IF val \in ProductionNames THEN Ok("Production")
        ELSE Err(EnvironmentParseError(val))

\* The values a variable of the process environment may hold: a text, or
\* bytes that are not valid Unicode.
NotUnicode == [unicode |-> FALSE]

Unicode(s) == [unicode |-> TRUE, s |-> s]

\* std::env::var
env_var(environ, key) ==
    IF key \notin DOMAIN environ THEN Err("NotPresent")
    ELSE IF ~environ[key].unicode THEN Err("NotUnicode")
    ELSE Ok(environ[key].s)

\* from_env with the environment name read and parsed before the secret.
Client_from_env_environment_first(environ) ==
    LET api_key     == env_var(environ, "WYRE_API_KEY")
        api_secret  == env_var(environ, "WYRE_API_SECRET")
        environment == env_var(environ, "WYRE_ENVIRONMENT")
    IN  IF ~api_key.ok THEN Err("MissingApiKey")
        ELSE IF ~environment.ok THEN Err("MissingEnvironment")
        ELSE LET parsed == Environment_from_str(environment.value)
             IN  IF ~parsed.ok THEN Err(parsed.error)
                 ELSE IF ~api_secret.ok THEN Err("MissingApiSecret")
                 ELSE Ok(Client_new(api_key.value, api_secret.value, parsed.value))

\* Client::from_env
Client_from_env(environ) ==
    LET api_key     == env_var(environ, "WYRE_API_KEY")
        api_secret  == env_var(environ, "WYRE_API_SECRET")
        environment == env_var(environ, "WYRE_ENVIRONMENT")
    IN  IF ~api_key.ok THEN Err("MissingApiKey")
        ELSE IF ~api_secret.ok THEN Err("MissingApiSecret")
        ELSE IF ~environment.ok THEN Err("MissingEnvironment")
        ELSE LET parsed == Environment_from_str(environment.value)
             IN  IF ~parsed.ok THEN Err(parsed.error)
                 ELSE Ok(Client_new(api_key.value, api_secret.value, parsed.value))

\* Texts given as environment names.
EnvironmentTexts ==
    { <<"t", "e", "s", "t">>, <<"T", "E", "S", "T">>, <<"T", "e", "s", "t">>,
      <<" ", "t", "e", "s", "t", "\n">>, <<"d", "e", "v">>, <<"D", "e", "v", " ">>,
      <<"d", "e", "v", "e", "l", "o", "p", "m", "e", "n", "t">>,
      <<"p", "r", "o", "d">>, <<"P", "R", "O", "D">>, <<"\t", "p", "r", "o", "d">>,
      <<"p", "r", "o", "d", "u", "c", "t", "i", "o", "n">>,
      <<"P", "r", "o", "d", "u", "c", "t", "i", "o", "n">>,
      <<>>, <<" ">>, <<"l", "i", "v", "e">>, <<"L", "i", "v", "e">>,
      <<" ", "l", "i", "v", "e">>, <<"l", "i", "v", "e", " ">>,
      <<"t", "e", " ", "s", "t">>, <<"t", "e", "s", "t", "s">>, <<"p", "r", "o">> }

\* The states of the three variables from_env reads.
Environs ==
    LET values(texts) == {NotUnicode} \cup { Unicode(t) : t \in texts }
        some == [ {"WYRE_API_KEY", "WYRE_API_SECRET", "WYRE_ENVIRONMENT"} ->
                    {[set |-> FALSE]} \cup { [set |-> TRUE, value |-> v] :
                        v \in values({<<"K">>, <<"S">>, <<>>, <<"t", "e", "s", "t">>,
                                      <<"P", "r", "o", "d">>, <<"L", "i", "v", "e">>}) } ]
    IN  { [key \in { k \in DOMAIN f : f[k].set } |-> f[key].value] : f \in some }

(***************************************************************************)
(* Construction from the environment and the conversions, applied to       *)
(* inputs a caller or a server may give.  An action applies one function:  *)
(* input holds the function and its argument, output what it returned.     *)
(***************************************************************************)
InitFunctions ==
    /\ srn = None
    /\ text = None
    /\ decoded = None
    /\ client = None
    /\ pc = "idle"
    /\ call = None
    /\ request = None
    /\ sent = <<>>
    /\ response = None
    /\ result = None
    /\ waiting = None
    /\ input = None
    /\ output = None

\* The function f applied to arg returned out.
Applied(f, arg, out) ==
    /\ input = None
    /\ input' = Some([fn |-> f, arg |-> arg])
    /\ output' = Some(out)
    /\ UNCHANGED <<srnVars, clientVars>>

\* Client::from_env
from_env ==
    \E environ \in Environs : Applied("from_env", environ, Client_from_env(environ))

\* str::parse::<Environment>
from_str ==
    \E s \in EnvironmentTexts : Applied("from_str", s, Environment_from_str(s))

\* The caller drops the value.
Forget ==
    /\ input # None
    /\ input' = None
    /\ output' = None
    /\ UNCHANGED <<srnVars, clientVars>>

\* The variables of the environment that hold a text.
Readable(environ) == { key \in DOMAIN environ : environ[key].unicode }

C20_ErrorHoldsOriginalText ==
    (input.some /\ input.v.fn = "from_str" /\ ~output.v.ok) =>
        output.v.error = [EnvironmentParseError |-> input.v.arg]

(***************************************************************************)
(* Deserialization of the values a response holds.                         *)
(***************************************************************************)
\* JSON given where a Currency is expected: every named code, codes the enum
\* does not name, and values that are not strings.
CurrencyInputs ==
    { JStr(<<tok>>) : tok \in DOMAIN CurrencyTokens \cup {"XYZ", "ABC", "usd", "SUSDC", "Other"} }
    \cup { JNull, JNum(1) }

\* serde_json::from_value::<Currency>
deserialize_Currency ==
    \E j \in CurrencyInputs : Applied("deserialize_Currency", j, Decode(Currency, j))

\* An address as a server sends it.
AddressObject ==
    JObj([street1 |-> JStr(<<"123 Sesame St">>), city |-> JStr(<<"New York City">>),
          state |-> JStr(<<"New York">>), postalCode |-> JStr(<<"10128">>),
          country |-> JStr(<<"US">>)])

\* The values given to the "value" member of a profile field: none, null,
\* a string, an address, a list of document ids.
ProfileFieldValues ==
    << None, Some(JNull), Some(JStr(<<"s">>)), Some(AddressObject),
       Some(JArr(<< JStr(<<"doc1">>) >>)) >>

\* JSON given where a ProfileField is expected, for one "value": every
\* fieldType, a fieldType that is unknown, lowercase, not a string or
\* missing, and the other members in two forms each.
ProfileFieldInputs(val) ==
    LET tags   == { Some(JStr(<<tok>>)) :
                      tok \in DOMAIN ProfileFieldTypeTokens \cup {"BOGUS", "address"} }
                  \cup { None, Some(JNum(1)) }
        rest   == { [fieldId |-> JStr(<<id>>), note |-> note, updatedT |-> JNum(7),
                     status |-> JStr(<<st>>)] :
                      id \in {"individualResidenceAddress"}, note \in {JNull, JStr(<<"n">>)},
                      st \in {"OPEN", "APPROVED"} }
        put(f, key, o) == IF o.some THEN With(f, key, o.v) ELSE f
    IN  { JObj(put(put(r, "fieldType", tag), "value", val)) : r \in rest, tag \in tags }

\* serde_json::from_value::<ProfileField>
deserialize_ProfileField ==
    \E n \in 1..Len(ProfileFieldValues) :
        \E j \in ProfileFieldInputs(ProfileFieldValues[n]) :
            Applied("deserialize_ProfileField", j, Decode(ProfileField, j))

\* The function f has been applied.
Called(f) == input.some /\ input.v.fn = f

\* The member key of the object j is the string of the single token tok.
IsToken(j, key, tok) ==
    key \in DOMAIN j.v /\ j.v[key].t = "str" /\ j.v[key].v = <<tok>>

\* C14: a currency token the enum does not name decodes to Other, so any two
\* such tokens decode to the same value; a named code decodes to its own
\* variant, which is not Other.
C14_UnknownCurrencyIsOther ==
    (Called("deserialize_Currency") /\ input.v.arg.t = "str") =>
        LET tok == input.v.arg.v[1]
        IN  IF tok \in CurrencyNames \cup {"sUSDC", "pDAI", "mUSDC", "L-BTC"}
            THEN /\ output.v.ok
                 /\ output.v.value # "Other"
                 /\ tok \in CurrencyNames => output.v.value = tok
            ELSE output.v = Ok("Other")

C14_Witness ==
    /\ Called("deserialize_Currency")
    /\ input.v.arg = JStr(<<"XYZ">>)
    /\ output.v = Ok("Other")

\* C15: a profile field with fieldType ADDRESS and a null value decodes, to
\* Address(None); fieldId, note, updatedT and status are those of the object.
C15_NullAddressIsAddressNone ==
    (/\ Called("deserialize_ProfileField")
     /\ IsToken(input.v.arg, "fieldType", "ADDRESS")
     /\ "value" \in DOMAIN input.v.arg.v
     /\ input.v.arg.v["value"].t = "null") =>
        LET j == input.v.arg.v
        IN  /\ output.v.ok
            /\ output.v.value.value = [variant |-> "Address", value |-> None]
            /\ output.v.value.field_id = "IndividualResidenceAddress"
            /\ output.v.value.note = IF j["note"].t = "null" THEN None ELSE Some(j["note"].v)
            /\ output.v.value.updated_t = Some(j["updatedT"].v)
            /\ output.v.value.status = IF j["status"].v = <<"OPEN">> THEN "Open" ELSE "Approved"

C15_Witness ==
    /\ Called("deserialize_ProfileField")
    /\ IsToken(input.v.arg, "fieldType", "ADDRESS")
    /\ IsToken(input.v.arg, "note", "n")
    /\ IsToken(input.v.arg, "status", "APPROVED")
    /\ "value" \in DOMAIN input.v.arg.v
    /\ input.v.arg.v["value"].t = "null"
    /\ output.v.ok
    /\ output.v.value.value = [variant |-> "Address", value |-> None]

\* C16: a profile field whose fieldType is a string other than the seven
\* tokens does not decode: the result is an error, whatever its value.
C16_UnknownFieldTypeFails ==
    (/\ Called("deserialize_ProfileField")
     /\ "fieldType" \in DOMAIN input.v.arg.v
     /\ input.v.arg.v["fieldType"].t = "str"
     /\ input.v.arg.v["fieldType"].v[1] \notin
            {"STRING", "CELLPHONE", "EMAIL", "ADDRESS", "DATE", "DOCUMENT", "PAYMENT_METHOD"}) =>
        ~output.v.ok

C16_Witness ==
    /\ Called("deserialize_ProfileField")
    /\ IsToken(input.v.arg, "fieldType", "BOGUS")
    /\ IsToken(input.v.arg, "value", "s")
    /\ output.v = DecodeError("unknown_variant")

\* JSON given where a UserFieldType is expected: a string, null, addresses
\* (whole, empty, with an unknown member, with a member of the wrong type),
\* and values of other kinds.
UserFieldTypeInputs ==
    << JStr(<<"John">>),
       JNull,
       AddressObject,
       JObj([key \in {} |-> JNull]),
       JObj([street1 |-> JStr(<<"123 Sesame St">>), floor |-> JNum(3)]),
       JObj([street1 |-> JNum(123)]),
       JNum(1),
       JBool(TRUE),
       JArr(<<>>),
       JArr([i \in 1..6 |-> JNull]) >>

\* serde_json::from_value::<UserFieldType>
deserialize_UserFieldType ==
    \E n \in 1..Len(UserFieldTypeInputs) :
        Applied("deserialize_UserFieldType", UserFieldTypeInputs[n],
                Decode(TUserFieldType, UserFieldTypeInputs[n]))

\* A user field as a server sends it.
UserFieldObject(value, status) ==
    JObj([value |-> value, error |-> JNull, status |-> JStr(<<status>>)])

\* JSON given where a User is expected: the user of tests::user_serde (with
\* a shorter createdAt), the same with a number for a first name, and a user
\* with one field.
UserInputs ==
    LET user(fields) ==
            JObj([id |-> JStr(<<"US_48MBN7LX9VY">>), status |-> JStr(<<"OPEN">>),
                  partnerId |-> JStr(<<"PT_BWLU6B2W3BX">>), type |-> JStr(<<"INDIVIDUAL">>),
                  createdAt |-> JNum(16546353),
                  depositAddresses |-> JObj([key \in {} |-> JNull]),
                  totalBalances |-> JObj([key \in {} |-> JNull]),
                  availableBalances |-> JObj([key \in {} |-> JNull]),
                  fields |-> JObj(fields)])
    IN  << user([firstName |-> UserFieldObject(JStr(<<"John">>), "SUBMITTED"),
                 lastName |-> UserFieldObject(JStr(<<"Smith">>), "SUBMITTED"),
                 dateOfBirth |-> UserFieldObject(JNull, "OPEN"),
                 residenceAddress |-> UserFieldObject(AddressObject, "SUBMITTED")]),
           user([firstName |-> UserFieldObject(JNum(1), "SUBMITTED"),
                 lastName |-> UserFieldObject(JStr(<<"Smith">>), "SUBMITTED"),
                 dateOfBirth |-> UserFieldObject(JNull, "OPEN"),
                 residenceAddress |-> UserFieldObject(AddressObject, "SUBMITTED")]),
           user([email |-> UserFieldObject(JStr(<<"j@s.com">>), "OPEN")]) >>

\* serde_json::from_value::<User>
deserialize_User ==
    \E n \in 1..Len(UserInputs) :
        Applied("deserialize_User", UserInputs[n], Decode(User, UserInputs[n]))

\* The members of the object j under the keys of an Address are strings or
\* null.
AddressShaped(j) ==
    /\ j.t = "obj"
    /\ \A key \in DOMAIN j.v \cap {"street1", "street2", "city", "state", "postalCode", "country"} :
          j.v[key].t \in {"str", "null"}

C18_AddressShapeTriedFirst ==
    Called("deserialize_UserFieldType") =>
        LET asAddress == Decode(TOption(Address), input.v.arg)
            asString  == Decode(TOption(TString), input.v.arg)
        IN  IF asAddress.ok
            THEN output.v.ok /\ output.v.value.variant = "Address"
            ELSE IF asString.ok
            THEN output.v.ok /\ output.v.value.variant = "String"
            ELSE ~output.v.ok

\* The JSON number 0.1.
OneTenth == [t |-> "num", v |-> 0, frac |-> <<"1">>]

\* Transfers as a server answers a CreateTransfer: the source amount and the
\* currencies are those of the encoded request; the total fees and the
\* exchange rate are JSON numbers, whole or fractional; then a source amount
\* sent as a number, total fees sent as a string, no exchange rate, and fees
\* in one named and two unnamed currencies.
TransferInputs ==
    LET created == Encode(CreateTransfer,
                          CHOOSE ct \in CreateTransfers : ct.source_amount.some)
        echoed  == Set(Set(Set(Sample(Transfer),
                       "sourceAmount", created.v["sourceAmount"]),
                       "sourceCurrency", created.v["sourceCurrency"]),
                       "destCurrency", created.v["destCurrency"])
        whole   == Set(Set(echoed, "totalFees", JNum(2)), "exchangeRate", JNum(1))
    IN  << whole,
           Set(whole, "totalFees", OneTenth),
           Set(whole, "exchangeRate", OneTenth),
           Set(whole, "sourceAmount", OneTenth),
           Set(whole, "totalFees", JStr(<<"0", ".", "1">>)),
           Unset(whole, "exchangeRate"),
           Set(whole, "fees", JObj([USD |-> JStr(<<"1">>), XYZ |-> JStr(<<"2">>),
                                    ABC |-> JStr(<<"3">>)])) >>

\* serde_json::from_value::<Transfer>
deserialize_Transfer ==
    \E n \in 1..Len(TransferInputs) :
        Applied("deserialize_Transfer", TransferInputs[n], Decode(Transfer, TransferInputs[n]))

\* The decoded quantity d is the decimal the JSON value j writes, digit for
\* digit.
ExactDecimal(j, d) ==
    IF j.t = "str"
    THEN {"neg", "int", "frac"} \subseteq DOMAIN d /\ BigDecimal_from_str(j.v) = Ok(d)
    ELSE /\ j.t = "num"
         /\ j.frac = <<>>
         /\ \/ "integer" \in DOMAIN d /\ d.integer = j.v
            \/ {"int", "frac"} \subseteq DOMAIN d /\ d.int = j.v /\ d.frac = <<>>

\* C19: every monetary quantity of a decoded transfer (source and
\* destination amounts, fees, total fees, exchange rate) is the exact decimal
\* of the body, and the currencies and the status are those of the body.
C19_TransferAmountsExact ==
    (Called("deserialize_Transfer") /\ output.v.ok) =>
        LET body     == input.v.arg.v
            transfer == output.v.value
        IN  /\ ExactDecimal(body["sourceAmount"], transfer.source_amount)
            /\ ExactDecimal(body["destAmount"], transfer.dest_amount)
            /\ ExactDecimal(body["totalFees"], transfer.total_fees)
            /\ "exchangeRate" \in DOMAIN body =>
                  /\ transfer.exchange_rate.some
                  /\ ExactDecimal(body["exchangeRate"], transfer.exchange_rate.v)
            /\ \A c \in DOMAIN transfer.fees :
                  \E key \in DOMAIN body["fees"].v :
                      ExactDecimal(body["fees"].v[key], transfer.fees[c])
            /\ Ok(transfer.source_currency) = Decode(Currency, body["sourceCurrency"])
            /\ Ok(transfer.dest_currency) = Decode(Currency, body["destCurrency"])
            /\ Ok(transfer.status) = Decode(TransferStatus, body["status"])

\* ProfileFieldType values of the seven shapes, with and without a payload;
\* an address with some members absent; no document and two documents.
ProfileFieldTypeValues ==
    LET address == [street1 |-> Some(<<"1 Main St">>), street2 |-> None,
                    city |-> Some(<<"Springfield">>), state |-> Some(<<"CA">>),
                    postal_code |-> Some(<<"90001">>), country |-> None]
    IN  << [variant |-> "String", value |-> None],
           [variant |-> "String", value |-> Some(<<"s">>)],
           [variant |-> "Cellphone", value |-> None],
           [variant |-> "Cellphone", value |-> Some(<<"+15554445555">>)],
           [variant |-> "Email", value |-> None],
           [variant |-> "Email", value |-> Some(<<"dev@sendwyre.com">>)],
           [variant |-> "Address", value |-> None],
           [variant |-> "Address", value |-> Some(address)],
           [variant |-> "Date", value |-> None],
           [variant |-> "Date", value |-> Some(<<"1992-12-15">>)],
           [variant |-> "Document", value |-> <<>>],
           [variant |-> "Document", value |-> << <<"doc1">>, <<"doc2">> >>],
           [variant |-> "PaymentMethod", value |-> None],
           [variant |-> "PaymentMethod", value |-> Some(<<"PA_1">>)] >>

\* serde_json::to_value of a ProfileFieldType, of a CreateProfileField that
\* holds it, and serde_json::from_value::<ProfileFieldType> of the former.
round_trip_ProfileFieldType ==
    \E n \in 1..Len(ProfileFieldTypeValues) :
        LET v == ProfileFieldTypeValues[n]
        IN  Applied("round_trip_ProfileFieldType", v,
                    [encoded |-> Encode(TProfileFieldType, v),
                     field   |-> Encode(CreateProfileField,
                                        [field_id |-> "IndividualLegalName", value |-> v]),
                     decoded |-> Decode(TProfileFieldType, Encode(TProfileFieldType, v))])

\* The discriminator of each shape.
FieldTypeToken ==
    [String |-> "STRING", Cellphone |-> "CELLPHONE", Email |-> "EMAIL",
     Address |-> "ADDRESS", Date |-> "DATE", Document |-> "DOCUMENT",
     PaymentMethod |-> "PAYMENT_METHOD"]

\* C24: encoding a ProfileFieldType of any of the seven shapes, with or
\* without a payload, writes its discriminator under fieldType (distinct
\* shapes have distinct discriminators) and its payload under value, alone or
\* inside a CreateProfileField, and decoding the encoding gives back the same
\* variant with the same payload.
C24_ProfileFieldTypeRoundTrip ==
    /\ \A a, b \in DOMAIN FieldTypeToken : FieldTypeToken[a] = FieldTypeToken[b] => a = b
    /\ Called("round_trip_ProfileFieldType") =>
          LET v == input.v.arg
              o == output.v
          IN  /\ DOMAIN FieldTypeToken = { ProfileFieldTypeValues[n].variant :
                                              n \in 1..Len(ProfileFieldTypeValues) }
              /\ o.encoded.t = "obj"
              /\ DOMAIN o.encoded.v = {"fieldType", "value"}
              /\ o.encoded.v["fieldType"] = JStr(<<FieldTypeToken[v.variant]>>)
              /\ DOMAIN o.field.v = {"fieldId", "fieldType", "value"}
              /\ o.field.v["fieldType"] = o.encoded.v["fieldType"]
              /\ o.field.v["value"].t = o.encoded.v["value"].t
              /\ o.field.v["value"] = o.encoded.v["value"]
              /\ o.decoded.ok
              /\ o.decoded.value.variant = v.variant
              /\ o.decoded.value.value = v.value

C24_Witness ==
    /\ Called("round_trip_ProfileFieldType")
    /\ input.v.arg.variant = "Address"
    /\ input.v.arg.value.some
    /\ output.v.encoded.v["value"].t = "obj"
    /\ output.v.decoded.ok
    /\ output.v.decoded.value.value.v.city = Some(<<"Springfield">>)

\* The characters of the variant names of UserScope and of the tokens
\* written for them.
Spelling ==
    [Transfer      |-> <<"T", "r", "a", "n", "s", "f", "e", "r">>,
     ACH           |-> <<"A", "C", "H">>,
     DebitCardL2   |-> <<"D", "e", "b", "i", "t", "C", "a", "r", "d", "L", "2">>,
     TRANSFER      |-> <<"T", "R", "A", "N", "S", "F", "E", "R">>,
     A_C_H         |-> <<"A", "_", "C", "_", "H">>,
     DEBIT_CARD_L2 |-> <<"D", "E", "B", "I", "T", "_", "C", "A", "R", "D", "_", "L", "2">>]

\* str::to_ascii_uppercase
to_ascii_uppercase(s) ==
    LET upper == <<"A", "B", "C", "D", "E", "F", "G", "H", "I", "J", "K", "L", "M",
                   "N", "O", "P", "Q", "R", "S", "T", "U", "V", "W", "X", "Y", "Z">>
        lower == <<"a", "b", "c", "d", "e", "f", "g", "h", "i", "j", "k", "l", "m",
                   "n", "o", "p", "q", "r", "s", "t", "u", "v", "w", "x", "y", "z">>
    IN  [i \in 1..Len(s) |->
            IF \E n \in 1..Len(lower) : lower[n] = s[i]
            THEN upper[CHOOSE n \in 1..Len(lower) : lower[n] = s[i]]
            ELSE s[i]]

\* rename_all = "SCREAMING_SNAKE_CASE" applied to a variant name: a "_"
\* before every capital letter but the first character, then upper case.
RECURSIVE ScreamingSnakeCase(_, _)
ScreamingSnakeCase(variant, i) ==
    IF i > Len(variant) THEN <<>>
    ELSE (IF i > 1 /\ to_ascii_lowercase(<<variant[i]>>) # <<variant[i]>>
          THEN <<"_">> ELSE <<>>)
         \o to_ascii_uppercase(<<variant[i]>>)
         \o ScreamingSnakeCase(variant, i + 1)

\* A scope written by Serialize (into the body of create_user and
\* update_user) and by to_string (into the query of get_user).
UserScope_tokens ==
    \E scope \in UserScopes :
        Applied("UserScope_tokens", scope,
                [json    |-> Encode(UserScope, scope),
                 renamed |-> ScreamingSnakeCase(Spelling[scope], 1),
                 query   |-> UserScope_to_string(scope)])

\* C25: the token Serialize writes for a UserScope is the token to_string
\* writes for it, one of TRANSFER, ACH and DEBIT_CARD_L2.
C25_ScopeTokenSameInBodyAndQuery ==
    Called("UserScope_tokens") =>
        /\ output.v.query \in { <<"TRANSFER">>, <<"ACH">>, <<"DEBIT_CARD_L2">> }
        /\ output.v.json = JStr(output.v.query)
        /\ output.v.renamed = Spelling[output.v.query[1]]

\* impl Default for TransferStatus
TransferStatus_default == "Pending"

\* TransferStatus::default()
default_TransferStatus ==
    Applied("TransferStatus_default", <<>>, TransferStatus_default)

\* C26: TransferStatus::default() is Unconfirmed, the state of a newly
\* created transfer.
C26_DefaultStatusIsUnconfirmed ==
    Called("TransferStatus_default") => output.v = "Unconfirmed"

\* Currency-keyed objects of string values: empty, named codes alone,
\* unnamed codes alone, and both.
CurrencyKeySets ==
    { {}, {"USD"}, {"USD", "BTC"}, {"XYZ"}, {"XYZ", "ABC"}, {"USD", "XYZ", "ABC"},
      {"USD", "BTC", "XYZ", "ABC", "usd"} }

\* Accounts whose deposit addresses and balances are held in the currencies
\* of keys.
AccountInputs ==
    { Set(Set(Set(Sample(Account),
          "depositAddresses", JObj([key \in keys |-> JStr(<<"addr", key>>)])),
          "totalBalances", JObj([key \in keys |-> JStr(<<"1">>)])),
          "availableBalances", JObj([key \in keys |-> JStr(<<"1">>)])) :
        keys \in CurrencyKeySets }

\* serde_json::from_value::<Account>
deserialize_Account ==
    \E j \in AccountInputs : Applied("deserialize_Account", j, Decode(Account, j))

\* The decoded map m has one entry for every named code of the object j and,
\* when j has codes that are not named, one entry more, under Other.
OneEntryPerCurrency(j, m) ==
    LET keys    == DOMAIN j.v
        named   == keys \cap DOMAIN CurrencyTokens
        unnamed == keys \ named
    IN  /\ DOMAIN m = { CurrencyTokens[key] : key \in named }
                      \cup (IF unnamed = {} THEN {} ELSE {"Other"})
        /\ Cardinality(DOMAIN m) = Cardinality(named) + (IF unnamed = {} THEN 0 ELSE 1)
        /\ Cardinality(DOMAIN m) <= Cardinality(keys)
        /\ Cardinality(unnamed) > 1 => Cardinality(DOMAIN m) < Cardinality(keys)

\* C27: a decoded currency-keyed map (deposit addresses, total and available
\* balances of an account, fees of a transfer) has one entry per distinct
\* decoded currency: the entries under named codes are kept, each with its
\* value, and all entries under codes that are not named become one entry
\* under Other, whose value is that of one of them.
C27_CurrencyMapsCollapseUnnamed ==
    /\ (Called("deserialize_Account") /\ output.v.ok) =>
          LET body    == input.v.arg.v
              account == output.v.value
          IN  /\ OneEntryPerCurrency(body["depositAddresses"], account.deposit_addresses)
              /\ OneEntryPerCurrency(body["totalBalances"], account.total_balances)
              /\ OneEntryPerCurrency(body["availableBalances"], account.available_balances)
              /\ \A key \in DOMAIN body["depositAddresses"].v :
                    IF key \in DOMAIN CurrencyTokens
                    THEN account.deposit_addresses[CurrencyTokens[key]] = <<"addr", key>>
                    ELSE \E k \in DOMAIN body["depositAddresses"].v \ DOMAIN CurrencyTokens :
                            account.deposit_addresses["Other"] = <<"addr", k>>
    /\ (Called("deserialize_Transfer") /\ output.v.ok) =>
          OneEntryPerCurrency(input.v.arg.v["fees"], output.v.value.fees)
    /\ Called("deserialize_Account") => output.v.ok

C27_Witness ==
    /\ Called("deserialize_Account")
    /\ DOMAIN input.v.arg.v["depositAddresses"].v = {"USD", "XYZ", "ABC"}
    /\ output.v.ok
    /\ DOMAIN output.v.value.deposit_addresses = {"USD", "Other"}

\* The characters of the variant names of ProfileFieldId and of the texts
\* written for them.
ProfileFieldIdSpelling ==
    [IndividualLegalName |->
        <<"I", "n", "d", "i", "v", "i", "d", "u", "a", "l", "L", "e", "g", "a", "l", "N", "a", "m", "e">>,
     IndividualCellphoneNumber |->
        <<"I", "n", "d", "i", "v", "i", "d", "u", "a", "l", "C", "e", "l", "l", "p", "h", "o", "n", "e", "N", "u", "m", "b", "e", "r">>,
     IndividualEmail |->
        <<"I", "n", "d", "i", "v", "i", "d", "u", "a", "l", "E", "m", "a", "i", "l">>,
     IndividualResidenceAddress |->
        <<"I", "n", "d", "i", "v", "i", "d", "u", "a", "l", "R", "e", "s", "i", "d", "e", "n", "c", "e", "A", "d", "d", "r", "e", "s", "s">>,
     IndividualGovernmentId |->
        <<"I", "n", "d", "i", "v", "i", "d", "u", "a", "l", "G", "o", "v", "e", "r", "n", "m", "e", "n", "t", "I", "d">>,
     IndividualDateOfBirth |->
        <<"I", "n", "d", "i", "v", "i", "d", "u", "a", "l", "D", "a", "t", "e", "O", "f", "B", "i", "r", "t", "h">>,
     IndividualSsn |->
        <<"I", "n", "d", "i", "v", "i", "d", "u", "a", "l", "S", "s", "n">>,
     IndividualSourceOfFunds |->
        <<"I", "n", "d", "i", "v", "i", "d", "u", "a", "l", "S", "o", "u", "r", "c", "e", "O", "f", "F", "u", "n", "d", "s">>,
     IndividualProofOfAddress |->
        <<"I", "n", "d", "i", "v", "i", "d", "u", "a", "l", "P", "r", "o", "o", "f", "O", "f", "A", "d", "d", "r", "e", "s", "s">>,
     IndividualAchAuthorizationForm |->
        <<"I", "n", "d", "i", "v", "i", "d", "u", "a", "l", "A", "c", "h", "A", "u", "t", "h", "o", "r", "i", "z", "a", "t", "i", "o", "n", "F", "o", "r", "m">>,
     individualLegalName |->
        <<"i", "n", "d", "i", "v", "i", "d", "u", "a", "l", "L", "e", "g", "a", "l", "N", "a", "m", "e">>,
     individualCellphoneNumber |->
        <<"i", "n", "d", "i", "v", "i", "d", "u", "a", "l", "C", "e", "l", "l", "p", "h", "o", "n", "e", "N", "u", "m", "b", "e", "r">>,
     individualEmail |->
        <<"i", "n", "d", "i", "v", "i", "d", "u", "a", "l", "E", "m", "a", "i", "l">>,
     individualResidenceAddress |->
        <<"i", "n", "d", "i", "v", "i", "d", "u", "a", "l", "R", "e", "s", "i", "d", "e", "n", "c", "e", "A", "d", "d", "r", "e", "s", "s">>,
     individualGovernmentId |->
        <<"i", "n", "d", "i", "v", "i", "d", "u", "a", "l", "G", "o", "v", "e", "r", "n", "m", "e", "n", "t", "I", "d">>,
     individualDateOfBirth |->
        <<"i", "n", "d", "i", "v", "i", "d", "u", "a", "l", "D", "a", "t", "e", "O", "f", "B", "i", "r", "t", "h">>,
     individualSsn |->
        <<"i", "n", "d", "i", "v", "i", "d", "u", "a", "l", "S", "s", "n">>,
     individualSourceOfFunds |->
        <<"i", "n", "d", "i", "v", "i", "d", "u", "a", "l", "S", "o", "u", "r", "c", "e", "O", "f", "F", "u", "n", "d", "s">>,
     individualProofOfAddress |->
        <<"i", "n", "d", "i", "v", "i", "d", "u", "a", "l", "P", "r", "o", "o", "f", "O", "f", "A", "d", "d", "r", "e", "s", "s">>,
     individualAchAuthorizationForm |->
        <<"i", "n", "d", "i", "v", "i", "d", "u", "a", "l", "A", "c", "h", "A", "u", "t", "h", "o", "r", "i", "z", "a", "t", "i", "o", "n", "F", "o", "r", "m">>]

\* rename_all = "camelCase" applied to a variant name: the first character
\* in lower case, the rest as it is.
CamelCase(variant) == to_ascii_lowercase(SubSeq(variant, 1, 1)) \o Tail(variant)

\* A field identifier written by Serialize (into JSON bodies) and by Display
\* (into the URL of upload_document), and the latter read by Deserialize.
ProfileFieldId_tokens ==
    \E tok \in DOMAIN ProfileFieldId.tokens :
        LET id == ProfileFieldId.tokens[tok]
        IN  Applied("ProfileFieldId_tokens", id,
                    [json    |-> Encode(ProfileFieldId, id),
                     renamed |-> CamelCase(ProfileFieldIdSpelling[id]),
                     display |-> ProfileFieldId_fmt(id),
                     decoded |-> Decode(ProfileFieldId, JStr(ProfileFieldId_fmt(id)))])

\* C29: the text Display writes for a ProfileFieldId is the camelCase token
\* Serialize writes and Deserialize reads for it, and two identifiers have
\* two texts.
C29_DisplayIsJsonToken ==
    Called("ProfileFieldId_tokens") =>
        /\ Len(output.v.display) = 1
        /\ output.v.json = JStr(output.v.display)
        /\ output.v.renamed = ProfileFieldIdSpelling[output.v.display[1]]
        /\ output.v.decoded = Ok(input.v.arg)
        /\ \A tok \in DOMAIN ProfileFieldId.tokens :
              ProfileFieldId.tokens[tok] # input.v.arg =>
                  ProfileFieldId_fmt(ProfileFieldId.tokens[tok]) # output.v.display

C29_Witness ==
    /\ Called("ProfileFieldId_tokens")
    /\ input.v.arg = "IndividualAchAuthorizationForm"
    /\ output.v.display = <<"individualAchAuthorizationForm">>
    /\ output.v.json = JStr(<<"individualAchAuthorizationForm">>)

\* UserFieldType values: each shape with and without a payload.
UserFieldTypeValues ==
    << [variant |-> "String", value |-> None],
       [variant |-> "String", value |-> Some(<<"John">>)],
       [variant |-> "Address", value |-> None],
       [variant |-> "Address",
        value |-> Some([street1 |-> Some(<<"1 Main St">>), street2 |-> None,
                        city |-> Some(<<"Springfield">>), state |-> None,
                        postal_code |-> None, country |-> Some(<<"US">>)])] >>

\* serde_json::to_value of a UserFieldType and
\* serde_json::from_value::<UserFieldType> of the result.
round_trip_UserFieldType ==
    \E n \in 1..Len(UserFieldTypeValues) :
        LET v == UserFieldTypeValues[n]
        IN  Applied("round_trip_UserFieldType", v,
                    [encoded |-> Encode(TUserFieldType, v),
                     decoded |-> Decode(TUserFieldType, Encode(TUserFieldType, v))])

\* The Address a is None at every member the object j does not have.
AbsentKeysAreNone(j, a) ==
    /\ "street1" \notin DOMAIN j.v => a.street1 = None
    /\ "street2" \notin DOMAIN j.v => a.street2 = None
    /\ "city" \notin DOMAIN j.v => a.city = None
    /\ "state" \notin DOMAIN j.v => a.state = None
    /\ "postalCode" \notin DOMAIN j.v => a.postal_code = None
    /\ "country" \notin DOMAIN j.v => a.country = None

\* null decodes to String(None); no decoding yields Address(None); encoding
\* Address(None) and decoding the result does not give Address(None) back.
NullIsStringNone ==
    /\ Called("deserialize_UserFieldType") =>
          /\ input.v.arg.t = "null" =>
                output.v = Ok([variant |-> "String", value |-> None])
          /\ output.v.ok => ~(output.v.value.variant = "Address" /\ ~output.v.value.value.some)
    /\ Called("round_trip_UserFieldType") =>
          /\ output.v.decoded.ok =>
                ~(/\ output.v.decoded.value.variant = "Address"
                  /\ ~output.v.decoded.value.value.some)
          /\ (input.v.arg.variant = "Address" /\ ~input.v.arg.value.some) =>
                /\ output.v.encoded.t = "null"
                /\ output.v.decoded = Ok([variant |-> "String", value |-> None])

\* C30 as stated: every JSON object, whatever its keys, decodes to
\* Address(Some(..)) with the absent address members None; null decodes to
\* String(None), so Address(None) is never decoded and does not survive
\* encoding and decoding.
C30_EveryObjectIsAddress ==
    /\ (Called("deserialize_UserFieldType") /\ input.v.arg.t = "obj") =>
          /\ output.v.ok
          /\ output.v.value.variant = "Address"
          /\ output.v.value.value.some
          /\ AbsentKeysAreNone(input.v.arg, output.v.value.value.v)
    /\ NullIsStringNone

\* C30 amended: every JSON object whose members under the address keys are
\* strings or null, whatever its other keys, decodes to Address(Some(..)) with
\* the absent address members None; an object with an address member of
\* another type does not decode; null decodes to String(None), so
\* Address(None) is never decoded and does not survive encoding and decoding.
C30_AddressShapedObjectIsAddress ==
    /\ (Called("deserialize_UserFieldType") /\ input.v.arg.t = "obj") =>
          IF AddressShaped(input.v.arg)
          THEN /\ output.v.ok
               /\ output.v.value.variant = "Address"
               /\ output.v.value.value.some
               /\ AbsentKeysAreNone(input.v.arg, output.v.value.value.v)
          ELSE ~output.v.ok
    /\ NullIsStringNone

C30_Witness ==
    /\ Called("round_trip_UserFieldType")
    /\ input.v.arg = [variant |-> "Address", value |-> None]
    /\ output.v.encoded.t = "null"
    /\ output.v.decoded = Ok([variant |-> "String", value |-> None])

\* The functions, each applied to one input and the result then dropped.
NextFunctions ==
    \/ from_env
    \/ from_str
    \/ deserialize_Currency
    \/ deserialize_ProfileField
    \/ deserialize_UserFieldType
    \/ deserialize_User
    \/ deserialize_Transfer
    \/ round_trip_ProfileFieldType
    \/ UserScope_tokens
    \/ default_TransferStatus
    \/ deserialize_Account
    \/ ProfileFieldId_tokens
    \/ round_trip_UserFieldType
    \/ Forget

SpecFunctions == InitFunctions /\ [][NextFunctions]_vars
====
